---- MODULE Spec2Model ----
(***************************************************************************)
(* Customer data normalisation (transformCustomerData), batch ingestion    *)
(* (CustomerProvider.refreshCustomers) and the hierarchy flattener         *)
(* (Home.allCustomersFlattened) of the B2B subscription portal.            *)
(*                                                                         *)
(* JavaScript values are tagged records: the tag k is the value's kind.    *)
(* A raw webhook record is an object holding only the keys that the        *)
(* payload carries; reading a key that is not there yields undefined, as   *)
(* in JavaScript.                                                          *)
(***************************************************************************)
EXTENDS Integers, Sequences, FiniteSets, TLC

VARIABLES
    customers,              \* CustomerProvider state: Customer[]
    loading,                \* CustomerProvider state: boolean
    error,                  \* CustomerProvider state: string | null
    webhookUrl,             \* process.env.NEXT_PUBLIC_WEBHOOK_GET_CUSTOMERS is set
    inFlight,               \* refreshCustomers calls awaiting their fetch
    data,                   \* refreshCustomers: body of the last response read
    invalidCustomers,       \* refreshCustomers: diagnostics of the last response read
    allCustomersFlattened,  \* Home's flattened list, as rendered from customers
    createWebhookUrl,       \* process.env.NEXT_PUBLIC_WEBHOOK_CREATE_CUSTOMER is set
    pending,                \* addCustomer, updateCustomer, deleteCustomer calls awaiting
    ops,                    \* number of such calls made so far
    event,                  \* what the latest step of a CustomerProvider call did
    formDraft,              \* AppProvider state: FormDraft | null
    storedDraft,            \* localStorage item b2b-portal-form-draft, null when absent
    clientWebhookUrl,       \* process.env.NEXT_PUBLIC_WEBHOOK_CREATE_CLIENT is set
    page,                   \* the route whose page component is mounted
    view,                   \* the useState values of that page component
    run,                    \* the locals of its handler calls that await a fetch
    requests,               \* bodies of the create-client requests sent, in order
    posting,                \* create-client requests awaiting their response
    timers,                 \* the auto-save timers set by setTimeout, in the order set
    loads,                  \* number of times the application was loaded in the browser
    clientsWebhooks,        \* which of the get-clients, pause and resume URLs are set
    now,                    \* the clock: Math.floor(Date.now() / 1000)
    dateNow,                \* the clock: Date.now(), in ms counted from StartOfTime
    ticks,                  \* number of clock advances so far
    nPc,                    \* normaliser harness: "idle", "start", "once", "twice"
    nRaw,                   \* normaliser harness: the raw record
    nOut,                   \* normaliser harness: outcome of the first call
    nOut2                   \* normaliser harness: outcome of the second call

vars == <<customers, loading, error, webhookUrl, inFlight, data, invalidCustomers,
          allCustomersFlattened, createWebhookUrl, pending, ops, event,
          formDraft, storedDraft, clientWebhookUrl, page, view, run, requests, posting,
          timers, loads, clientsWebhooks, now, dateNow, ticks, nPc, nRaw, nOut, nOut2>>

appVars == <<formDraft, storedDraft>>

envVars == <<timers, loads, clientsWebhooks>>

pageVars == <<clientWebhookUrl, page, view, run, requests, posting>>

storeVars == <<createWebhookUrl, pending, ops>>

providerVars == <<customers, loading, error, webhookUrl, inFlight, data,
                  invalidCustomers, allCustomersFlattened, storeVars, event>>

harnessVars == <<nPc, nRaw, nOut, nOut2>>

-----------------------------------------------------------------------------
(* Bounds *)

MaxBatch == 2

MaxChildren == 2

MaxTicks == 1

MaxInFlight == 1

MaxOps == 2

-----------------------------------------------------------------------------
(* JavaScript values *)

Undef == [k |-> "undefined"]

Null == [k |-> "null"]

NaN == [k |-> "NaN"]

Str(s) == [k |-> "string", s |-> s]

Num(n) == [k |-> "number", n |-> n]

Arr(items) == [k |-> "array", items |-> items]

EmptyObject == [k |-> "object"]

\* no key at all
NoFields == [x \in {} |-> x]

\* ToBoolean
Truthy(v) ==
    CASE v.k \in {"undefined", "null", "NaN"} -> FALSE
      [] v.k = "string" -> v.s # ""
      [] v.k = "number" -> v.n # 0
      [] OTHER -> TRUE

\* a || b
Or(a, b) == IF Truthy(a) THEN a ELSE b

Nullish(v) == v.k \in {"undefined", "null"}

\* a ?? b
Coalesce(a, b) == IF Nullish(a) THEN b ELSE a

\* data.key on a value that is neither null nor undefined
Get(v, key) == IF v.k = "object" /\ key \in DOMAIN v THEN v[key] ELSE Undef

Digits == <<"0", "1", "2", "3", "4", "5", "6", "7", "8", "9">>

RECURSIVE NumToStr(_)
NumToStr(n) ==
    IF n < 10 THEN Digits[n + 1]
    ELSE NumToStr(n \div 10) \o Digits[(n % 10) + 1]

\* String(v), and the conversion a template literal applies
JsString(v) ==
    CASE v.k = "undefined" -> "undefined"
      [] v.k = "null" -> "null"
      [] v.k = "NaN" -> "NaN"
      [] v.k = "string" -> v.s
      [] v.k = "number" -> NumToStr(v.n)
      [] v.k = "object" -> "[object Object]"

\* new Date(v).getTime() / 1000 for the timestamp strings of the payloads
DateSeconds(v) ==
    CASE v = Str("1970-01-01T00:00:00Z") -> Num(0)
      [] v = Str("2024-01-01T00:00:00Z") -> Num(1704067200)
      [] OTHER -> NaN

-----------------------------------------------------------------------------
(* transformCustomerData *)

IsArray(v) == v.k = "array"

\* a resolution that looks at Id before id
ResolveIdPascalFirst(d) ==
    JsString(Coalesce(Get(d, "Id"), Coalesce(Get(d, "id"), Get(d, "ID"))))

\* the id as transformCustomerData and its child filter resolve it
ResolveId(d) == JsString(Coalesce(Get(d, "id"), Coalesce(Get(d, "Id"), Get(d, "ID"))))

ResolveType(d) == Or(Get(d, "customer_type"), Or(Get(d, "customerType"), Str("org")))

RawSubOrgs(d) == Or(Get(d, "suborgs"), Or(Get(d, "subOrgs"), Or(Get(d, "SubOrgs"), Arr(<<>>))))

\* a filter that forgets to exclude the parent itself
KeepSubOrgKindOnly(suborg, customerId) == ResolveType(suborg) = Str("sub-org")

\* the filter callback: keeps sub-orgs whose id differs from the parent's
KeepSubOrg(suborg, customerId) ==
    ResolveId(suborg) # customerId /\ ResolveType(suborg) = Str("sub-org")

ResolveCreated(d, clock) ==
    Or(Get(d, "created"),
       IF Truthy(Get(d, "CreatedAt")) THEN DateSeconds(Get(d, "CreatedAt")) ELSE Num(clock))

Threw == [threw |-> TRUE]

Returned(v) == [threw |-> FALSE, val |-> v]

\* rawSubOrgs when it is an array, [] otherwise
SubOrgItems(d) == IF IsArray(RawSubOrgs(d)) THEN RawSubOrgs(d).items ELSE <<>>

\* the returned object literal
CustomerOf(d, clock, customerId, transformedSubOrgs) ==
    [k |-> "object",
     id |-> Str(customerId),
     name |-> Or(Get(d, "name"), Or(Get(d, "Name"), Str(""))),
     customer_type |-> ResolveType(d),
     created |-> ResolveCreated(d, clock),
     client_count |-> Or(Get(d, "client_count"),
                         Or(Get(d, "clientCount"), Or(Get(d, "ClientCount"), Num(0)))),
     suborgs |-> Arr(transformedSubOrgs),
     parent_org_name |-> Or(Get(d, "parent_org_name"),
                            Or(Get(d, "parentOrgName"), Get(d, "ParentOrgName"))),
     email |-> Or(Get(d, "email"), Get(d, "Email")),
     metadata |-> Or(Get(d, "metadata"), EmptyObject)]

\* Reading a property of null or undefined throws a TypeError: the call
\* throws when data is null, when the filter meets a null entry, or when the
\* transform of a kept sub-org throws.
RECURSIVE transformCustomerData(_, _)
RECURSIVE mapSubOrgs(_, _, _, _)

\* .map((suborg) => transformCustomerData(suborg)) over the kept entries
mapSubOrgs(kept, i, acc, clock) ==
    IF i > Len(kept) THEN Returned(acc)
    ELSE LET step(t) == IF t.threw THEN Threw
                        ELSE mapSubOrgs(kept, i + 1, Append(acc, t.val), clock)
         IN  step(transformCustomerData(kept[i], clock))

transformCustomerData(d, clock) ==
    IF Nullish(d) THEN Threw
    ELSE LET filterAndMap(customerId, items) ==
                 IF \E i \in 1..Len(items) : Nullish(items[i]) THEN Threw
                 ELSE mapSubOrgs(SelectSeq(items, LAMBDA s : KeepSubOrg(s, customerId)),
                                 1, <<>>, clock)
             finish(customerId, subs) ==
                 IF subs.threw THEN Threw
                 ELSE Returned(CustomerOf(d, clock, customerId, subs.val))
             withId(customerId) ==
                 finish(customerId, filterAndMap(customerId, SubOrgItems(d)))
         IN  withId(ResolveId(d))

-----------------------------------------------------------------------------
(* refreshCustomers: the forEach over the response array *)

\* the callback's branch for one element, given the transform's outcome
Validate(t) ==
    IF t.threw THEN "transform error"
    ELSE IF ~Truthy(t.val.id) THEN "missing id"
    ELSE IF ~Truthy(t.val.name) THEN "missing name"
    ELSE "valid"

\* a loop that the first transform error ends
RECURSIVE forEachCustomerAborting(_, _, _, _)
forEachCustomerAborting(d, i, acc, clock) ==
    IF i > Len(d) THEN acc
    ELSE LET rejected(reason) ==
                 [acc EXCEPT !.invalidCustomers =
                      Append(@, [index |-> i - 1, reason |-> reason])]
             callback(t) ==
                 IF Validate(t) = "valid"
                 THEN forEachCustomerAborting(d, i + 1,
                        [acc EXCEPT !.validatedCustomers = Append(@, t.val)], clock)
                 ELSE IF Validate(t) = "transform error" THEN rejected(Validate(t))
                 ELSE forEachCustomerAborting(d, i + 1, rejected(Validate(t)), clock)
         IN  IF ~Truthy(d[i])
             THEN forEachCustomerAborting(d, i + 1, rejected("null or undefined"), clock)
             ELSE callback(transformCustomerData(d[i], clock))

RECURSIVE forEachCustomer(_, _, _, _)
forEachCustomer(d, i, acc, clock) ==
    IF i > Len(d) THEN acc
    ELSE LET rejected(reason) ==
                 [acc EXCEPT !.invalidCustomers =
                      Append(@, [index |-> i - 1, reason |-> reason])]
             callback(t) ==
                 IF Validate(t) = "valid"
                 THEN [acc EXCEPT !.validatedCustomers = Append(@, t.val)]
                 ELSE rejected(Validate(t))
         IN  forEachCustomer(d, i + 1,
               IF ~Truthy(d[i]) THEN rejected("null or undefined")
               ELSE callback(transformCustomerData(d[i], clock)),
               clock)

ValidateBatch(d, clock) ==
    forEachCustomer(d, 1, [validatedCustomers |-> <<>>, invalidCustomers |-> <<>>], clock)

-----------------------------------------------------------------------------
(* Home.allCustomersFlattened: customers.reduce(...) *)

OrgRow(customer) ==
    ("uniqueKey" :> Str("org-" \o JsString(Get(customer, "id")))) @@ customer

\* a row that keeps the parent name the sub-org carries
SubOrgRowCarried(customer, suborg, index) ==
    ("uniqueKey" :> Str("suborg-" \o JsString(Get(customer, "id")) \o "-"
                        \o JsString(Or(Get(suborg, "id"), Num(index)))))
    @@ suborg

SubOrgRow(customer, suborg, index) ==
    ("parent_org_name" :> Get(customer, "name"))
    @@ ("uniqueKey" :> Str("suborg-" \o JsString(Get(customer, "id")) \o "-"
                            \o JsString(Or(Get(suborg, "id"), Num(index)))))
    @@ suborg

\* customer.suborgs.map((suborg, index) => ...)
RECURSIVE mapSubOrgRows(_, _, _, _)
mapSubOrgRows(customer, items, j, acc) ==
    IF j > Len(items) THEN acc
    ELSE mapSubOrgRows(customer, items, j + 1,
                       Append(acc, SubOrgRow(customer, items[j], j - 1)))

SubOrgRows(customer) ==
    IF Truthy(Get(customer, "suborgs")) /\ Len(Get(customer, "suborgs").items) > 0
    THEN mapSubOrgRows(customer, Get(customer, "suborgs").items, 1, <<>>)
    ELSE <<>>

\* a reduce that pushes the sub-org rows before their parent's row
RECURSIVE FlattenFromChildrenFirst(_, _, _)
FlattenFromChildrenFirst(cs, i, acc) ==
    IF i > Len(cs) THEN acc
    ELSE FlattenFromChildrenFirst(cs, i + 1, (acc \o SubOrgRows(cs[i])) \o <<OrgRow(cs[i])>>)

RECURSIVE FlattenFrom(_, _, _)
FlattenFrom(cs, i, acc) ==
    IF i > Len(cs) THEN acc
    ELSE FlattenFrom(cs, i + 1, (acc \o <<OrgRow(cs[i])>>) \o SubOrgRows(cs[i]))

HomeFlatten(cs) == FlattenFrom(cs, 1, <<>>)

-----------------------------------------------------------------------------
(* Payloads of the get-customers webhook *)

SubB == [k |-> "object", id |-> Str("2"), name |-> Str("B"), customer_type |-> Str("sub-org")]

SubE ==
    [k |-> "object", Id |-> Num(5), Name |-> Str("E"), customerType |-> Str("sub-org"),
     ParentOrgName |-> Str("Q")]

OrgChild == [k |-> "object", id |-> Str("3"), name |-> Str("C"), customer_type |-> Str("org")]

SelfChild == [k |-> "object", Id |-> Num(1), name |-> Str("A"), customerType |-> Str("sub-org")]

SelfChildLiteral ==
    [k |-> "object", id |-> Str("1"), name |-> Str("A"), customer_type |-> Str("sub-org")]

GrandChild == [k |-> "object", id |-> Str("8"), name |-> Str("H"), customer_type |-> Str("sub-org")]

SubWithChildren ==
    [k |-> "object", id |-> Str("4"), name |-> Str("D"), customer_type |-> Str("sub-org"),
     suborgs |-> Arr(<<GrandChild, OrgChild>>)]

SubWithNullChild ==
    [k |-> "object", id |-> Str("6"), name |-> Str("F"), customer_type |-> Str("sub-org"),
     SubOrgs |-> Arr(<<Null>>)]

RecOrgA ==
    [k |-> "object", id |-> Str("1"), name |-> Str("A"), customer_type |-> Str("org"),
     created |-> Num(1700000000),
     suborgs |-> Arr(<<SubB, OrgChild, SelfChild, Str("garbage"), SubE>>)]

RecAliasB ==
    [k |-> "object", Id |-> Num(2), Name |-> Str("B"), parentOrgName |-> Str("P"),
     CreatedAt |-> Str("2024-01-01T00:00:00Z"), SubOrgs |-> Arr(<<SubE>>)]

RecNoId == [k |-> "object", name |-> Str("C"), customer_type |-> Str("org")]

RecNoName == [k |-> "object", id |-> Str("1"), customer_type |-> Str("org")]

RecNullChild ==
    [k |-> "object", id |-> Str("6"), name |-> Str("F"), suborgs |-> Arr(<<Null, SubB>>)]

RecNoNameNullChild ==
    [k |-> "object", id |-> Str("7"), suborgs |-> Arr(<<Null>>)]

Catalogue == {RecOrgA, RecAliasB, RecNoId, RecNoName, RecNullChild, RecNoNameNullChild, Null}

SeqsUpTo(S, n) == UNION {[1..m -> S] : m \in 0..n}

Responses == SeqsUpTo(Catalogue, MaxBatch)

NonArrayBodies == {Null, [k |-> "object", message |-> Str("Workflow was started")]}

\* the message when the response is not OK, and when fetch rejects
FetchErrors == {"Failed to fetch customers: Internal Server Error", "Failed to fetch"}

StartOfTime == 1762128 * 1000

-----------------------------------------------------------------------------
(* Page components: nothing mounted but the home page *)

NoView == [k |-> "none"]

NoRun == [pc |-> "idle"]

\* every URL of the clients page is set
AllWebhooks == [get |-> TRUE, pause |-> TRUE, resume |-> TRUE]

-----------------------------------------------------------------------------
(* CustomerProvider *)

\* names that only addCustomer's and updateCustomer's inputs carry
LocalNames == {Str("N"), Str("Z")}

NoEvent == [op |-> "none", outcome |-> "none", branch |-> "none", overwrote |-> FALSE]

\* a call ran up to its await
Began(op) == [op |-> op, outcome |-> "pending", branch |-> "none", overwrote |-> FALSE]

\* a call ran to its end: it returned or threw, by the branch named; overwrote
\* tells whether setCustomers replaced a list holding an Entity that
\* addCustomer appended or updateCustomer renamed
Settled(op, outcome, branch, overwrote) ==
    [op |-> op, outcome |-> outcome, branch |-> branch, overwrote |-> overwrote]

Overwrote(prev) == \E i \in 1..Len(prev) : prev[i].name \in LocalNames

Init ==
    /\ customers = <<>>
    /\ loading = TRUE
    /\ error = Null
    /\ webhookUrl \in BOOLEAN
    /\ inFlight = 0
    /\ data = Undef
    /\ invalidCustomers = <<>>
    /\ allCustomersFlattened = <<>>
    /\ createWebhookUrl = TRUE
    /\ pending = {}
    /\ ops = 0
    /\ event = NoEvent
    /\ formDraft = Null
    /\ storedDraft = Null
    /\ clientWebhookUrl = TRUE
    /\ page = "/"
    /\ view = NoView
    /\ run = NoRun
    /\ requests = <<>>
    /\ posting = 0
    /\ timers = <<>>
    /\ loads = 1
    /\ clientsWebhooks = AllWebhooks
    /\ now = StartOfTime
    /\ dateNow = 0
    /\ ticks = 0
    /\ nPc = "idle"
    /\ nRaw = Undef
    /\ nOut = Threw
    /\ nOut2 = Threw

\* refreshCustomers when the webhook URL is not configured: runs to its end
RefreshNotConfigured ==
    /\ ~webhookUrl
    /\ customers' = <<>>
    /\ allCustomersFlattened' = HomeFlatten(customers')
    /\ error' = Null
    /\ loading' = FALSE
    /\ event' = Settled("refreshCustomers", "returned", "not configured", Overwrote(customers))
    /\ UNCHANGED <<webhookUrl, inFlight, data, invalidCustomers, storeVars, now, dateNow, ticks,
                   harnessVars, appVars, envVars, pageVars>>

\* refreshCustomers up to `await fetch(webhookUrl)`, while fewer than limit
\* calls await theirs
RefreshStartUpTo(limit) ==
    /\ webhookUrl
    /\ inFlight < limit
    /\ loading' = TRUE
    /\ error' = Null
    /\ inFlight' = inFlight + 1
    /\ event' = Began("refreshCustomers")
    /\ UNCHANGED <<customers, webhookUrl, data, invalidCustomers, allCustomersFlattened,
                   storeVars, now, dateNow, ticks, harnessVars, appVars, envVars, pageVars>>

\* a catch that also empties the list
RefreshFailClearing ==
    /\ inFlight > 0
    /\ \E message \in FetchErrors : error' = Str(message)
    /\ customers' = <<>>
    /\ allCustomersFlattened' = HomeFlatten(customers')
    /\ loading' = FALSE
    /\ inFlight' = inFlight - 1
    /\ event' = Settled("refreshCustomers", "returned", "failed", FALSE)
    /\ UNCHANGED <<webhookUrl, data, invalidCustomers, storeVars, now, dateNow, ticks, harnessVars,
                   appVars, envVars, pageVars>>

\* the fetch rejects, or the response is not OK: catch and finally
RefreshFail ==
    /\ inFlight > 0
    /\ \E message \in FetchErrors : error' = Str(message)
    /\ loading' = FALSE
    /\ inFlight' = inFlight - 1
    /\ event' = Settled("refreshCustomers", "returned", "failed", FALSE)
    /\ UNCHANGED <<customers, webhookUrl, data, invalidCustomers, allCustomersFlattened,
                   storeVars, now, dateNow, ticks, harnessVars, appVars, envVars, pageVars>>

\* a non-array branch that forgets setCustomers([])
RefreshNotArrayKeeping ==
    /\ inFlight > 0
    /\ \E body \in NonArrayBodies : data' = body
    /\ invalidCustomers' = <<>>
    /\ loading' = FALSE
    /\ inFlight' = inFlight - 1
    /\ event' = Settled("refreshCustomers", "returned", "not an array", FALSE)
    /\ UNCHANGED <<customers, allCustomersFlattened, error, webhookUrl, storeVars, now, dateNow,
                   ticks, harnessVars, appVars, envVars, pageVars>>

\* the response body is not an array
RefreshNotArray ==
    /\ inFlight > 0
    /\ \E body \in NonArrayBodies : data' = body
    /\ invalidCustomers' = <<>>
    /\ customers' = <<>>
    /\ allCustomersFlattened' = HomeFlatten(customers')
    /\ loading' = FALSE
    /\ inFlight' = inFlight - 1
    /\ event' = Settled("refreshCustomers", "returned", "not an array", Overwrote(customers))
    /\ UNCHANGED <<error, webhookUrl, storeVars, now, dateNow, ticks, harnessVars, appVars, envVars, pageVars>>

\* a refresh that appends the accepted Entities to the list it finds
RefreshArrayMerging(bodies) ==
    /\ inFlight > 0
    /\ \E body \in bodies :
         \E result \in {ValidateBatch(body, now)} :
             /\ data' = Arr(body)
             /\ invalidCustomers' = result.invalidCustomers
             /\ customers' = customers \o result.validatedCustomers
    /\ allCustomersFlattened' = HomeFlatten(customers')
    /\ loading' = FALSE
    /\ inFlight' = inFlight - 1
    /\ event' = Settled("refreshCustomers", "returned", "array", Overwrote(customers))
    /\ UNCHANGED <<error, webhookUrl, storeVars, now, dateNow, ticks, harnessVars, appVars, envVars, pageVars>>

\* the response body is an array, one of bodies: transform and validate each
\* customer, then setCustomers(validatedCustomers)
RefreshArrayFrom(bodies) ==
    /\ inFlight > 0
    /\ \E body \in bodies :
         \E result \in {ValidateBatch(body, now)} :
             /\ data' = Arr(body)
             /\ invalidCustomers' = result.invalidCustomers
             /\ customers' = result.validatedCustomers
    /\ allCustomersFlattened' = HomeFlatten(customers')
    /\ loading' = FALSE
    /\ inFlight' = inFlight - 1
    /\ event' = Settled("refreshCustomers", "returned", "array", Overwrote(customers))
    /\ UNCHANGED <<error, webhookUrl, storeVars, now, dateNow, ticks, harnessVars, appVars, envVars, pageVars>>

RefreshArray == RefreshArrayFrom(Responses)

RefreshStart == RefreshStartUpTo(MaxInFlight)

Next ==
    \/ RefreshNotConfigured
    \/ RefreshStart
    \/ RefreshFail
    \/ RefreshNotArray
    \/ RefreshArray

Spec == Init /\ [][Next]_vars

-----------------------------------------------------------------------------
(* CustomerProvider: addCustomer, updateCustomer, deleteCustomer *)

\* responses of the create-customer webhook
RecNew ==
    [k |-> "object", id |-> Str("9"), name |-> Str("N"), customer_type |-> Str("sub-org"),
     parent_org_name |-> Str("A")]

AddResponses == {RecNew, Arr(<<RecOrgA, RecNew>>), Arr(<<>>), RecNoName, RecNoId, Null}

AddFetchErrors == {"Failed to create customer: Internal Server Error"}

\* the message of the TypeError that reading a property of null raises
NullReadMessage == "Cannot read properties of null (reading 'id')"

\* arguments of updateCustomer and deleteCustomer
CallIds == {Str("1"), Str("9")}

SubZ ==
    [k |-> "object", id |-> Str("4"), name |-> Str("D"), customer_type |-> Str("sub-org"),
     created |-> Num(1700000000), client_count |-> Num(0), suborgs |-> Arr(<<>>),
     parent_org_name |-> Undef, email |-> Undef, metadata |-> EmptyObject]

Updates == {[k |-> "object", name |-> Str("Z")], [k |-> "object", suborgs |-> Arr(<<SubZ>>)]}

Failed(message) == [threw |-> TRUE, message |-> message]

\* addCustomer from the response body to the validation of the new customer
AddOutcome(raw, clock) ==
    IF IsArray(raw) /\ Len(raw.items) = 0 THEN Failed("Webhook returned empty array")
    ELSE LET validated(t) ==
                 IF t.threw THEN Failed(NullReadMessage)
                 ELSE IF ~Truthy(t.val.id) \/ ~Truthy(t.val.name)
                 THEN Failed("Invalid response from webhook - missing required fields (id, name)")
                 ELSE Returned(t.val)
         IN  validated(transformCustomerData(IF IsArray(raw) THEN raw.items[1] ELSE raw, clock))

\* an update that patches the first matching customer only
RECURSIVE ApplyUpdatesToFirst(_, _, _)
ApplyUpdatesToFirst(prev, id, updates) ==
    IF prev = <<>> THEN <<>>
    ELSE IF Head(prev).id = id THEN <<updates @@ Head(prev)>> \o Tail(prev)
    ELSE <<Head(prev)>> \o ApplyUpdatesToFirst(Tail(prev), id, updates)

\* prev.map((customer) => customer.id === id ? { ...customer, ...updates } : customer)
ApplyUpdates(prev, id, updates) ==
    [i \in 1..Len(prev) |-> IF prev[i].id = id THEN updates @@ prev[i] ELSE prev[i]]

\* prev.filter((customer) => customer.id !== id)
RemoveCustomer(prev, id) == SelectSeq(prev, LAMBDA customer : customer.id # id)

PendingCalls(op) == {call \in pending : call.op = op}

\* addCustomer when the webhook URL is not configured: throws at once
AddNotConfigured ==
    /\ ~createWebhookUrl
    /\ ops < MaxOps
    /\ ops' = ops + 1
    /\ error' = Str("NEXT_PUBLIC_WEBHOOK_CREATE_CUSTOMER is not configured")
    /\ event' = Settled("addCustomer", "threw", "not configured", FALSE)
    /\ UNCHANGED <<customers, loading, webhookUrl, inFlight, data, invalidCustomers,
                   allCustomersFlattened, createWebhookUrl, pending, now, dateNow, ticks,
                   harnessVars, appVars, envVars, pageVars>>

\* addCustomer up to `await fetch(webhookUrl, ...)`
AddStart ==
    /\ createWebhookUrl
    /\ ops < MaxOps
    /\ ops' = ops + 1
    /\ pending' = pending \cup {[n |-> ops' , op |-> "addCustomer"]}
    /\ event' = Began("addCustomer")
    /\ UNCHANGED <<customers, loading, error, webhookUrl, inFlight, data, invalidCustomers,
                   allCustomersFlattened, createWebhookUrl, now, dateNow, ticks,
                   harnessVars, appVars, envVars, pageVars>>

\* the fetch rejects, or the response is not OK
AddFail ==
    /\ \E call \in PendingCalls("addCustomer") : pending' = pending \ {call}
    /\ \E message \in AddFetchErrors : error' = Str(message)
    /\ event' = Settled("addCustomer", "threw", "failed", FALSE)
    /\ UNCHANGED <<customers, loading, webhookUrl, inFlight, data, invalidCustomers,
                   allCustomersFlattened, createWebhookUrl, ops, now, dateNow, ticks,
                   harnessVars, appVars, envVars, pageVars>>

\* the response body is read: the new customer is appended, or the call throws;
\* the event keeps the body read
AddRespond ==
    /\ \E call \in PendingCalls("addCustomer") : pending' = pending \ {call}
    /\ \E raw \in AddResponses :
         \E newCustomer \in {AddOutcome(raw, now)} :
             IF newCustomer.threw
             THEN /\ error' = Str(newCustomer.message)
                  /\ event' = ("raw" :> raw) @@ Settled("addCustomer", "threw", "invalid", FALSE)
                  /\ UNCHANGED <<customers, allCustomersFlattened>>
             ELSE /\ customers' = Append(customers, newCustomer.val)
                  /\ allCustomersFlattened' = HomeFlatten(customers')
                  /\ error' = Null
                  /\ event' = ("raw" :> raw)
                                 @@ Settled("addCustomer", "returned", "created", FALSE)
    /\ UNCHANGED <<loading, webhookUrl, inFlight, data, invalidCustomers, createWebhookUrl,
                   ops, now, dateNow, ticks, harnessVars, appVars, envVars, pageVars>>

\* updateCustomer(id, updates) up to the await of its 500 ms timer
UpdateStart ==
    /\ ops < MaxOps
    /\ ops' = ops + 1
    /\ \E id \in CallIds, updates \in Updates :
         pending' = pending \cup
                      {[n |-> ops', op |-> "updateCustomer", id |-> id, updates |-> updates]}
    /\ event' = Began("updateCustomer")
    /\ UNCHANGED <<customers, loading, error, webhookUrl, inFlight, data, invalidCustomers,
                   allCustomersFlattened, createWebhookUrl, now, dateNow, ticks,
                   harnessVars, appVars, envVars, pageVars>>

\* the timer fires: the state update and setError(null)
UpdateApply ==
    /\ \E call \in PendingCalls("updateCustomer") :
         /\ pending' = pending \ {call}
         /\ customers' = ApplyUpdates(customers, call.id, call.updates)
    /\ allCustomersFlattened' = HomeFlatten(customers')
    /\ error' = Null
    /\ event' = Settled("updateCustomer", "returned", "updated", FALSE)
    /\ UNCHANGED <<loading, webhookUrl, inFlight, data, invalidCustomers, createWebhookUrl,
                   ops, now, dateNow, ticks, harnessVars, appVars, envVars, pageVars>>

\* deleteCustomer(id) up to the await of its 500 ms timer
DeleteStart ==
    /\ ops < MaxOps
    /\ ops' = ops + 1
    /\ \E id \in CallIds :
         pending' = pending \cup {[n |-> ops', op |-> "deleteCustomer", id |-> id]}
    /\ event' = Began("deleteCustomer")
    /\ UNCHANGED <<customers, loading, error, webhookUrl, inFlight, data, invalidCustomers,
                   allCustomersFlattened, createWebhookUrl, now, dateNow, ticks,
                   harnessVars, appVars, envVars, pageVars>>

\* the timer fires: the state update and setError(null)
DeleteApply ==
    /\ \E call \in PendingCalls("deleteCustomer") :
         /\ pending' = pending \ {call}
         /\ customers' = RemoveCustomer(customers, call.id)
    /\ allCustomersFlattened' = HomeFlatten(customers')
    /\ error' = Null
    /\ event' = Settled("deleteCustomer", "returned", "deleted", FALSE)
    /\ UNCHANGED <<loading, webhookUrl, inFlight, data, invalidCustomers, createWebhookUrl,
                   ops, now, dateNow, ticks, harnessVars, appVars, envVars, pageVars>>

\* responses of the get-customers webhook while customers are being edited
StoreResponses == {<<RecAliasB>>, <<RecOrgA, RecAliasB>>, <<RecOrgA, RecOrgA>>}

InitProvider ==
    /\ customers = <<>>
    /\ loading = TRUE
    /\ error = Null
    /\ webhookUrl \in BOOLEAN
    /\ inFlight = 0
    /\ data = Undef
    /\ invalidCustomers = <<>>
    /\ allCustomersFlattened = <<>>
    /\ createWebhookUrl \in BOOLEAN
    /\ pending = {}
    /\ ops = 0
    /\ event = NoEvent
    /\ formDraft = Null
    /\ storedDraft = Null
    /\ clientWebhookUrl = TRUE
    /\ page = "/"
    /\ view = NoView
    /\ run = NoRun
    /\ requests = <<>>
    /\ posting = 0
    /\ timers = <<>>
    /\ loads = 1
    /\ clientsWebhooks = AllWebhooks
    /\ now = StartOfTime
    /\ dateNow = 0
    /\ ticks = 0
    /\ nPc = "idle"
    /\ nRaw = Undef
    /\ nOut = Threw
    /\ nOut2 = Threw

NextProvider ==
    \/ RefreshNotConfigured
    \/ RefreshStart
    \/ RefreshFail
    \/ RefreshNotArray
    \/ RefreshArrayFrom(StoreResponses)
    \/ AddNotConfigured
    \/ AddStart
    \/ AddFail
    \/ AddRespond
    \/ UpdateStart
    \/ UpdateApply
    \/ DeleteStart
    \/ DeleteApply

SpecProvider == InitProvider /\ [][NextProvider]_vars

-----------------------------------------------------------------------------
(* CustomerProvider: refreshCustomers calls that overlap *)

MaxOverlap == 2

\* responses of the get-customers webhook to the overlapping calls
OverlapResponses == SeqsUpTo({RecOrgA, RecAliasB, RecNoName}, MaxBatch)

NextOverlap ==
    \/ RefreshNotConfigured
    \/ RefreshStartUpTo(MaxOverlap)
    \/ RefreshFail
    \/ RefreshNotArray
    \/ RefreshArrayFrom(OverlapResponses)

SpecOverlap == Init /\ [][NextOverlap]_vars

-----------------------------------------------------------------------------
(* The client-create and client-create-batch pages: flattened lists *)

\* ClientCreate.allCustomersFlattened: the row of a sub-org
ClientSubOrgRow(customer, suborg, index) ==
    ("parent_org_name" :> Get(customer, "name"))
    @@ ("parent_org_id" :> Get(customer, "id"))
    @@ ("uniqueKey" :> Str("suborg-" \o JsString(Get(customer, "id")) \o "-"
                            \o JsString(Or(Get(suborg, "id"), Num(index)))))
    @@ suborg

ClientSubOrgRows(customer) ==
    IF Truthy(Get(customer, "suborgs")) /\ Len(Get(customer, "suborgs").items) > 0
    THEN [j \in 1..Len(Get(customer, "suborgs").items) |->
            ClientSubOrgRow(customer, Get(customer, "suborgs").items[j], j - 1)]
    ELSE <<>>

RECURSIVE ClientFlattenFrom(_, _, _)
ClientFlattenFrom(cs, i, acc) ==
    IF i > Len(cs) THEN acc
    ELSE ClientFlattenFrom(cs, i + 1,
           (acc \o <<("uniqueKey" :> Str("org-" \o JsString(Get(cs[i], "id")))) @@ cs[i]>>)
             \o ClientSubOrgRows(cs[i]))

\* ClientCreate.allSubOrgs
ClientSubOrgs(cs) ==
    SelectSeq(ClientFlattenFrom(cs, 1, <<>>),
              LAMBDA c : Get(c, "customer_type") = Str("sub-org"))

\* a row that keeps the parent name the sub-org carries
BatchSubOrgRowCarried(customer, suborg, index) ==
    ("parent_org_id" :> Get(customer, "id"))
    @@ ("uniqueKey" :> Str("suborg-" \o JsString(Get(customer, "id")) \o "-"
                            \o JsString(Or(Get(suborg, "id"), Num(index)))))
    @@ suborg

\* ClientCreateBatch.allCustomersFlattened: the row of a sub-org
BatchSubOrgRow(customer, suborg, index) ==
    ("parent_org_name" :> Get(customer, "name"))
    @@ ("parent_org_id" :> Get(customer, "id"))
    @@ ("uniqueKey" :> Str("suborg-" \o JsString(Get(customer, "id")) \o "-"
                            \o JsString(Or(Get(suborg, "id"), Num(index)))))
    @@ suborg

BatchSubOrgRows(customer) ==
    IF Truthy(Get(customer, "suborgs")) /\ Len(Get(customer, "suborgs").items) > 0
    THEN [j \in 1..Len(Get(customer, "suborgs").items) |->
            BatchSubOrgRow(customer, Get(customer, "suborgs").items[j], j - 1)]
    ELSE <<>>

RECURSIVE BatchFlattenFrom(_, _, _)
BatchFlattenFrom(cs, i, acc) ==
    IF i > Len(cs) THEN acc
    ELSE BatchFlattenFrom(cs, i + 1,
           (acc \o <<("uniqueKey" :> Str("org-" \o JsString(Get(cs[i], "id")))) @@ cs[i]>>)
             \o BatchSubOrgRows(cs[i]))

\* ClientCreateBatch.allSubOrgs
BatchSubOrgs(cs) ==
    SelectSeq(BatchFlattenFrom(cs, 1, <<>>),
              LAMBDA c : Get(c, "customer_type") = Str("sub-org"))

Range(seq) == {seq[i] : i \in 1..Len(seq)}

-----------------------------------------------------------------------------
(* The create-client request *)

\* JSON.stringify of an object: a key whose value is undefined is left out
JsonBody(obj) == [f \in {g \in DOMAIN obj : g = "k" \/ obj[g] # Undef} |-> obj[f]]

\* the parent org details added to clientData, each only when it is truthy
ParentDetails(selectedCustomer) ==
    IF Get(selectedCustomer, "customer_type") = Str("sub-org")
    THEN (IF Truthy(Get(selectedCustomer, "parent_org_id"))
          THEN "parent_org_id" :> Get(selectedCustomer, "parent_org_id") ELSE NoFields)
         @@ (IF Truthy(Get(selectedCustomer, "parent_org_name"))
             THEN "parent_org_name" :> Get(selectedCustomer, "parent_org_name") ELSE NoFields)
    ELSE NoFields

\* ClientCreate.handleSubmit: clientData as sent
ClientData(selectedCustomer, name) ==
    JsonBody(ParentDetails(selectedCustomer)
             @@ [k |-> "object", name |-> Str(name),
                 customer_id |-> Get(selectedCustomer, "id"),
                 org_name |-> Get(selectedCustomer, "name"),
                 recurring_interval |-> Str("month"), recurring_quantity |-> Num(1)])

\* ClientCreateBatch.handleSubmit: clientData of one iteration as sent
BatchClientData(selectedCustomer, clientName) ==
    JsonBody(ParentDetails(selectedCustomer)
             @@ [k |-> "object", name |-> Str(clientName),
                 customer_id |-> Get(selectedCustomer, "id"),
                 org_name |-> Get(selectedCustomer, "name"),
                 recurring_interval |-> Str("month"), recurring_quantity |-> Num(1)])

-----------------------------------------------------------------------------
(* ClientCreateBatch *)

MaxRequests == 3

ClientLimit == 1000

DefaultNumberOfClients == 10

FallbackNumberOfClients == 10

\* faker.person.fullName()
ClientNames == {"Ann Lee", "Bo Chen"}

\* what the number input can hold
NumberTexts ==
    {"", "0", "-1", NumToStr(ClientLimit + 1)} \cup {NumToStr(n) : n \in 1..MaxRequests}

\* parseInt(e.target.value)
ParseInt(text) ==
    CASE text = "" -> NaN
      [] text = "-1" -> Num(-1)
      [] OTHER -> Num(CHOOSE n \in 0..(ClientLimit + 1) : NumToStr(n) = text)

BatchView ==
    [k |-> "ClientCreateBatch", selectedCustomer |-> Null,
     numberOfClients |-> Num(DefaultNumberOfClients), isSubmitting |-> FALSE,
     error |-> Null, success |-> FALSE, progress |-> [current |-> 0, total |-> 0],
     createdClients |-> <<>>]

OnBatchPage == page = "/client-create-batch"

\* handleSelectCustomer, from a suggestion of the autocomplete over allSubOrgs
BatchSelect ==
    /\ OnBatchPage
    /\ \E customer \in Range(BatchSubOrgs(customers)) :
         view' = [view EXCEPT !.selectedCustomer = customer]
    /\ UNCHANGED <<providerVars, appVars, envVars, clientWebhookUrl, page, run, requests, posting,
                   now, dateNow, ticks, harnessVars>>

\* the Clear button next to the selected customer
BatchClear ==
    /\ OnBatchPage
    /\ view.selectedCustomer # Null
    /\ view' = [view EXCEPT !.selectedCustomer = Null]
    /\ UNCHANGED <<providerVars, appVars, envVars, clientWebhookUrl, page, run, requests, posting,
                   now, dateNow, ticks, harnessVars>>

\* onChange of the number input: setNumberOfClients(parseInt(e.target.value) || 10)
BatchSetNumber ==
    /\ OnBatchPage
    /\ ~(view.isSubmitting \/ view.success)
    /\ \E text \in NumberTexts :
         view' = [view EXCEPT
                    !.numberOfClients = Or(ParseInt(text), Num(FallbackNumberOfClients))]
    /\ UNCHANGED <<providerVars, appVars, envVars, clientWebhookUrl, page, run, requests, posting,
                   now, dateNow, ticks, harnessVars>>

\* the number check that forgets the lower limit
InvalidNumberAboveOnly(numberOfClients) == numberOfClients > ClientLimit

\* numberOfClients < 1 || numberOfClients > 1000
InvalidNumber(numberOfClients) == numberOfClients < 1 \/ numberOfClients > ClientLimit

\* the body of one iteration up to `await fetch(webhookUrl, ...)`
BatchSend(selectedCustomer, numberOfClients, i, created, successCount, failCount) ==
    \E clientName \in ClientNames :
        /\ requests' = Append(requests, BatchClientData(selectedCustomer, clientName))
        /\ run' = [pc |-> "fetching", selectedCustomer |-> selectedCustomer,
                   numberOfClients |-> numberOfClients, i |-> i, clientName |-> clientName,
                   created |-> created, successCount |-> successCount,
                   failCount |-> failCount]

\* a loop that a failed attempt ends
BatchLoopStoppingOnFailure(shown, settled, selectedCustomer, numberOfClients, i, created, successCount, failCount) ==
    IF i < numberOfClients /\ failCount = 0
    THEN /\ view' = shown
         /\ BatchSend(selectedCustomer, numberOfClients, i, created, successCount, failCount)
         /\ posting' = (posting - settled) + 1
    ELSE /\ view' = [shown EXCEPT
                       !.error = IF failCount > 0
                                 THEN Str("Created " \o NumToStr(successCount)
                                          \o " clients successfully, "
                                          \o NumToStr(failCount) \o " failed")
                                 ELSE @,
                       !.success = TRUE]
         /\ run' = NoRun
         /\ posting' = posting - settled
         /\ UNCHANGED requests

\* for (...; i < numberOfClients; ...): the next iteration up to its fetch,
\* or the statements after the loop; shown is the component state so far and
\* settled the number of fetches that settled in this step
BatchLoop(shown, settled, selectedCustomer, numberOfClients, i, created, successCount, failCount) ==
    IF i < numberOfClients
    THEN /\ view' = shown
         /\ BatchSend(selectedCustomer, numberOfClients, i, created, successCount, failCount)
         /\ posting' = (posting - settled) + 1
    ELSE /\ view' = [shown EXCEPT
                       !.error = IF failCount > 0
                                 THEN Str("Created " \o NumToStr(successCount)
                                          \o " clients successfully, "
                                          \o NumToStr(failCount) \o " failed")
                                 ELSE @,
                       !.success = TRUE]
         /\ run' = NoRun
         /\ posting' = posting - settled
         /\ UNCHANGED requests

\* handleSubmit up to its return, its throw or the fetch of the first client;
\* the submit button is disabled while isSubmitting || success
BatchSubmit ==
    /\ OnBatchPage
    /\ ~(view.isSubmitting \/ view.success)
    /\ LET cleared == [view EXCEPT !.error = Null, !.createdClients = <<>>]
           numberOfClients == view.numberOfClients.n
           started == [cleared EXCEPT !.progress = [current |-> 0, total |-> numberOfClients]]
       IN  IF ~Truthy(view.selectedCustomer)
           THEN /\ view' = [cleared EXCEPT !.error = Str("Please select a sub-organization")]
                /\ UNCHANGED <<run, requests, posting>>
           ELSE IF InvalidNumber(numberOfClients)
           THEN /\ view' = [cleared EXCEPT
                              !.error = Str("Please enter a number between 1 and 1000")]
                /\ UNCHANGED <<run, requests, posting>>
           ELSE IF ~clientWebhookUrl
           THEN /\ view' = [started EXCEPT
                              !.error = Str("NEXT_PUBLIC_WEBHOOK_CREATE_CLIENT is not configured")]
                /\ UNCHANGED <<run, requests, posting>>
           ELSE /\ numberOfClients <= MaxRequests
                /\ BatchLoop([started EXCEPT !.isSubmitting = TRUE], 0,
                             view.selectedCustomer, numberOfClients, 0, <<>>, 0, 0)
    /\ UNCHANGED <<providerVars, appVars, envVars, clientWebhookUrl, page, now, dateNow, ticks, harnessVars>>

\* a response step that leaves the progress alone when the attempt failed
BatchResponseCountingSuccesses ==
    /\ OnBatchPage
    /\ run.pc = "fetching"
    /\ \E ok \in BOOLEAN :
         LET created == IF ok THEN Append(run.created, run.clientName) ELSE run.created
             successCount == IF ok THEN run.successCount + 1 ELSE run.successCount
             failCount == IF ok THEN run.failCount ELSE run.failCount + 1
             shown == [view EXCEPT
                         !.progress = [current |-> IF ok THEN @.current + 1 ELSE @.current,
                                       total |-> run.numberOfClients],
                         !.createdClients = created]
         IN  BatchLoop(shown, 1, run.selectedCustomer, run.numberOfClients, run.i + 1,
                       created, successCount, failCount)
    /\ UNCHANGED <<providerVars, appVars, envVars, clientWebhookUrl, page, now, dateNow, ticks, harnessVars>>

\* the awaited fetch settles (ok: the response is OK; otherwise it is not, or
\* the fetch rejected): the counters, the progress, and the loop again
BatchResponse ==
    /\ OnBatchPage
    /\ run.pc = "fetching"
    /\ \E ok \in BOOLEAN :
         LET created == IF ok THEN Append(run.created, run.clientName) ELSE run.created
             successCount == IF ok THEN run.successCount + 1 ELSE run.successCount
             failCount == IF ok THEN run.failCount ELSE run.failCount + 1
             shown == [view EXCEPT
                         !.progress = [current |-> run.i + 1, total |-> run.numberOfClients],
                         !.createdClients = created]
         IN  BatchLoop(shown, 1, run.selectedCustomer, run.numberOfClients, run.i + 1,
                       created, successCount, failCount)
    /\ UNCHANGED <<providerVars, appVars, envVars, clientWebhookUrl, page, now, dateNow, ticks, harnessVars>>

\* the 3000 ms timer set on success fires: router.push("/")
BatchRedirect ==
    /\ OnBatchPage
    /\ view.success
    /\ page' = "/"
    /\ view' = NoView
    /\ UNCHANGED <<providerVars, appVars, envVars, clientWebhookUrl, run, requests, posting,
                   now, dateNow, ticks, harnessVars>>

-----------------------------------------------------------------------------
(* ClientCreate *)

ClientView ==
    [k |-> "ClientCreate", formData |-> [name |-> ""], selectedCustomer |-> Null,
     isSubmitting |-> FALSE, error |-> Null, success |-> FALSE]

OnClientPage == page = "/client-create"

ClientFetchErrors == {"Failed to create client: Internal Server Error", "Failed to fetch"}

\* handleInputChange of the name input
ClientInputChange ==
    /\ OnClientPage
    /\ ~(view.isSubmitting \/ view.success)
    /\ \E name \in ClientNames : view' = [view EXCEPT !.formData = [name |-> name]]
    /\ UNCHANGED <<providerVars, appVars, envVars, clientWebhookUrl, page, run, requests, posting,
                   now, dateNow, ticks, harnessVars>>

\* handleSelectCustomer, from a suggestion of the autocomplete over allSubOrgs
ClientSelect ==
    /\ OnClientPage
    /\ \E customer \in Range(ClientSubOrgs(customers)) :
         view' = [view EXCEPT !.selectedCustomer = customer]
    /\ UNCHANGED <<providerVars, appVars, envVars, clientWebhookUrl, page, run, requests, posting,
                   now, dateNow, ticks, harnessVars>>

\* the Clear button next to the selected customer
ClientClear ==
    /\ OnClientPage
    /\ view.selectedCustomer # Null
    /\ view' = [view EXCEPT !.selectedCustomer = Null]
    /\ UNCHANGED <<providerVars, appVars, envVars, clientWebhookUrl, page, run, requests, posting,
                   now, dateNow, ticks, harnessVars>>

\* handleSubmit up to its return, its throw or `await fetch(webhookUrl, ...)`
ClientSubmit ==
    /\ OnClientPage
    /\ ~(view.isSubmitting \/ view.success)
    /\ IF ~Truthy(view.selectedCustomer)
       THEN /\ view' = [view EXCEPT !.error = Str("Please select a sub-organization")]
            /\ UNCHANGED <<run, requests, posting>>
       ELSE IF ~clientWebhookUrl
       THEN /\ view' = [view EXCEPT
                          !.error = Str("NEXT_PUBLIC_WEBHOOK_CREATE_CLIENT is not configured")]
            /\ UNCHANGED <<run, requests, posting>>
       ELSE /\ Len(requests) < MaxRequests
            /\ view' = [view EXCEPT !.error = Null, !.isSubmitting = TRUE]
            /\ requests' = Append(requests, ClientData(view.selectedCustomer, view.formData.name))
            /\ posting' = posting + 1
            /\ run' = [pc |-> "fetching"]
    /\ UNCHANGED <<providerVars, appVars, envVars, clientWebhookUrl, page, now, dateNow, ticks, harnessVars>>

\* the response is OK: clearFormDraft() and setSuccess(true)
ClientCreated ==
    /\ OnClientPage
    /\ run.pc = "fetching"
    /\ formDraft' = Null
    /\ storedDraft' = Null
    /\ view' = [view EXCEPT !.success = TRUE]
    /\ run' = NoRun
    /\ posting' = posting - 1
    /\ UNCHANGED <<providerVars, envVars, clientWebhookUrl, page, requests, now, dateNow,
                   ticks, harnessVars>>

\* the response is not OK, or the fetch rejects: the catch
ClientFailed ==
    /\ OnClientPage
    /\ run.pc = "fetching"
    /\ \E message \in ClientFetchErrors :
         view' = [view EXCEPT !.error = Str(message), !.isSubmitting = FALSE]
    /\ run' = NoRun
    /\ posting' = posting - 1
    /\ UNCHANGED <<providerVars, appVars, envVars, clientWebhookUrl, page, requests, now, dateNow, ticks,
                   harnessVars>>

\* the 2000 ms timer set on success fires: router.push("/")
ClientRedirect ==
    /\ OnClientPage
    /\ view.success
    /\ page' = "/"
    /\ view' = NoView
    /\ UNCHANGED <<providerVars, appVars, envVars, clientWebhookUrl, run, requests, posting,
                   now, dateNow, ticks, harnessVars>>

-----------------------------------------------------------------------------
(* The two pages, mounted over a customer list that was loaded *)

\* a sub-org that the get-customers webhook lists at the top level, as
\* addCustomer appends a created sub-org
PageResponses == {<<>>, <<RecOrgA, RecAliasB>>, <<RecOrgA, RecNew>>}

\* a draft saved by the customer-create page
Draft ==
    [k |-> "object", name |-> Str("Acme"), customer_type |-> Str("sub-org"),
     timestamp |-> Num(0)]

InitPages ==
    /\ \E body \in PageResponses :
         /\ data = Arr(body)
         /\ customers = ValidateBatch(body, StartOfTime).validatedCustomers
         /\ invalidCustomers = ValidateBatch(body, StartOfTime).invalidCustomers
    /\ allCustomersFlattened = HomeFlatten(customers)
    /\ loading = FALSE
    /\ error = Null
    /\ webhookUrl = TRUE
    /\ inFlight = 0
    /\ createWebhookUrl = TRUE
    /\ pending = {}
    /\ ops = 0
    /\ event = Settled("refreshCustomers", "returned", "array", FALSE)
    /\ formDraft \in {Null, Draft}
    /\ storedDraft = formDraft
    /\ clientWebhookUrl \in BOOLEAN
    /\ \/ page = "/client-create" /\ view = ClientView
       \/ page = "/client-create-batch" /\ view = BatchView
    /\ run = NoRun
    /\ requests = <<>>
    /\ posting = 0
    /\ timers = <<>>
    /\ loads = 1
    /\ clientsWebhooks = AllWebhooks
    /\ now = StartOfTime
    /\ dateNow = 0
    /\ ticks = 0
    /\ nPc = "idle"
    /\ nRaw = Undef
    /\ nOut = Threw
    /\ nOut2 = Threw

NextPages ==
    \/ BatchSelect
    \/ BatchClear
    \/ BatchSetNumber
    \/ BatchSubmit
    \/ BatchResponse
    \/ BatchRedirect
    \/ ClientInputChange
    \/ ClientSelect
    \/ ClientClear
    \/ ClientSubmit
    \/ ClientCreated
    \/ ClientFailed
    \/ ClientRedirect

SpecPages == InitPages /\ [][NextPages]_vars

-----------------------------------------------------------------------------
(* AppProvider: the form draft *)

MaxLoads == 2

MaxEdits == 2

MaxAdvances == 2

AutoSaveDelay == 500

\* 24 * 60 * 60 * 1000
DraftLifetime == ((24 * 60) * 60) * 1000

\* an expiry test that lets the draft live for 24 hours and 1 ms
IsRecentInclusive(parsed, clock) ==
    /\ Get(parsed, "timestamp").k = "number"
    /\ clock - Get(parsed, "timestamp").n <= DraftLifetime

\* Date.now() - parsed.timestamp < 24 * 60 * 60 * 1000; a subtraction from a
\* timestamp that is not a number gives NaN, and NaN < n is false
IsRecent(parsed, clock) ==
    /\ Get(parsed, "timestamp").k = "number"
    /\ clock - Get(parsed, "timestamp").n < DraftLifetime

\* what the mount effect of AppProvider does with the stored item
LoadDraft(stored, clock) ==
    IF ~Truthy(stored) THEN "none"
    ELSE IF IsRecent(stored, clock) THEN "restored" ELSE "expired"

\* { ...draft, timestamp: Date.now() }
DraftWithTimestamp(draft, clock) == ("timestamp" :> Num(clock)) @@ draft

\* JSON.parse(JSON.stringify(value)) of an object of strings and numbers
JsonRoundTrip(value) == JsonBody(value)

-----------------------------------------------------------------------------
(* CustomerCreate *)

CustomerView ==
    [k |-> "CustomerCreate", formData |-> [k |-> "object", name |-> Str(""), customer_type |-> Str("org")],
     selectedParentOrg |-> Null, isSubmitting |-> FALSE, error |-> Null, success |-> FALSE,
     showDraftNotice |-> FALSE, hasDismissedDraft |-> FALSE]

OnCustomerPage == page = "/customer-create"

\* what the inputs named name and customer_type can hold
FieldValues ==
    {<<"name", Str("Acme")>>, <<"customer_type", Str("org")>>,
     <<"customer_type", Str("sub-org")>>}

\* the condition of the mount effect of CustomerCreate
DraftWorthShowing(draft) ==
    Truthy(draft) /\ (Truthy(Get(draft, "name")) \/ Get(draft, "customer_type") # Str("org"))

\* the first timer that did not fire yet, 0 when there is none
NextTimer ==
    IF \E i \in 1..Len(timers) : ~timers[i].fired
    THEN CHOOSE i \in 1..Len(timers) :
            ~timers[i].fired /\ \A j \in 1..(i - 1) : timers[j].fired
    ELSE 0

\* the application is opened or reloaded on a route: every component state
\* starts again and the timers of the document before are gone; the mount
\* effect of CustomerCreate sees formDraft null, then the mount effects of
\* CustomerProvider (refreshCustomers up to its fetch) and AppProvider run
AppLoad ==
    /\ loads < MaxLoads
    /\ loads' = loads + 1
    /\ timers' = <<>>
    /\ \E route \in {"/", "/customer-create"} :
         /\ page' = route
         /\ view' = IF route = "/customer-create" THEN CustomerView ELSE NoView
    /\ run' = NoRun
    /\ posting' = 0
    /\ customers' = <<>>
    /\ allCustomersFlattened' = <<>>
    /\ data' = Undef
    /\ invalidCustomers' = <<>>
    /\ pending' = {}
    /\ error' = Null
    /\ IF webhookUrl
       THEN loading' = TRUE /\ inFlight' = 1
       ELSE loading' = FALSE /\ inFlight' = 0
    /\ event' = ("draft" :> LoadDraft(storedDraft, dateNow))
                  @@ (IF webhookUrl THEN Began("refreshCustomers")
                      ELSE Settled("refreshCustomers", "returned", "not configured", FALSE))
    /\ IF LoadDraft(storedDraft, dateNow) = "restored"
       THEN formDraft' = storedDraft /\ UNCHANGED storedDraft
       ELSE formDraft' = Null /\ storedDraft' = Null
    /\ UNCHANGED <<webhookUrl, createWebhookUrl, ops, clientWebhookUrl, requests,
                   clientsWebhooks, now, dateNow, ticks, harnessVars>>

\* the link to the customer-create page is followed from the home page:
\* CustomerCreate mounts, and its mount effect looks at formDraft
GoCustomerCreate ==
    /\ page = "/"
    /\ loads > 0
    /\ page' = "/customer-create"
    /\ view' = [CustomerView EXCEPT !.showDraftNotice = DraftWorthShowing(formDraft)]
    /\ UNCHANGED <<providerVars, appVars, envVars, clientWebhookUrl, run, requests, posting,
                   now, dateNow, ticks, harnessVars>>

\* handleInputChange of the name input or of the type select: the auto-save
\* timer is set unless the draft notice shows and was not answered
CustomerInputChange ==
    /\ OnCustomerPage
    /\ ~(view.isSubmitting \/ view.success)
    /\ Len(timers) < MaxEdits
    /\ \E change \in FieldValues :
         \E updated \in {(change[1] :> change[2]) @@ view.formData} :
             /\ view' = [view EXCEPT
                           !.formData = updated,
                           !.selectedParentOrg =
                               IF change = <<"customer_type", Str("org")>> THEN Null ELSE @]
             /\ timers' = IF view.hasDismissedDraft \/ ~view.showDraftNotice
                          THEN Append(timers, [due |-> dateNow + AutoSaveDelay,
                                               updated |-> updated, fired |-> FALSE])
                          ELSE timers
    /\ UNCHANGED <<providerVars, appVars, loads, clientsWebhooks, clientWebhookUrl, page, run,
                   requests, posting, now, dateNow, ticks, harnessVars>>

\* handleSelectParentOrg, from a suggestion of the autocomplete over organizations
CustomerSelectParentOrg ==
    /\ OnCustomerPage
    /\ view.formData.customer_type = Str("sub-org")
    /\ \E org \in {c \in Range(customers) : c.customer_type = Str("org")} :
         view' = [view EXCEPT !.selectedParentOrg = org]
    /\ UNCHANGED <<providerVars, appVars, envVars, clientWebhookUrl, page, run, requests,
                   posting, now, dateNow, ticks, harnessVars>>

\* restoreDraft, from the button of the draft notice
RestoreDraft ==
    /\ OnCustomerPage
    /\ view.showDraftNotice /\ Truthy(formDraft)
    /\ view' = [view EXCEPT
                  !.formData = [k |-> "object", name |-> Get(formDraft, "name"),
                                customer_type |-> Get(formDraft, "customer_type")],
                  !.showDraftNotice = FALSE,
                  !.hasDismissedDraft = TRUE]
    /\ UNCHANGED <<providerVars, appVars, envVars, clientWebhookUrl, page, run, requests,
                   posting, now, dateNow, ticks, harnessVars>>

\* dismissDraft, from the button of the draft notice: clearFormDraft()
DismissDraft ==
    /\ OnCustomerPage
    /\ view.showDraftNotice /\ Truthy(formDraft)
    /\ view' = [view EXCEPT !.showDraftNotice = FALSE, !.hasDismissedDraft = TRUE]
    /\ formDraft' = Null
    /\ storedDraft' = Null
    /\ UNCHANGED <<providerVars, envVars, clientWebhookUrl, page, run, requests, posting,
                   now, dateNow, ticks, harnessVars>>

\* a timer that fired: its callback and its time are of no use any more
Fired == [due |-> 0, updated |-> Null, fired |-> TRUE]

\* an auto-save timer fires, the oldest first: saveFormDraft(updated)
AutoSave ==
    /\ NextTimer # 0
    /\ timers[NextTimer].due <= dateNow
    /\ timers' = [timers EXCEPT ![NextTimer] = Fired]
    /\ formDraft' = DraftWithTimestamp(timers[NextTimer].updated, dateNow)
    /\ storedDraft' = JsonRoundTrip(formDraft')
    /\ UNCHANGED <<providerVars, loads, clientsWebhooks, pageVars, now, dateNow, ticks,
                   harnessVars>>

\* handleSubmit up to its return, or to the await of addCustomer; the name
\* input is required and the button is disabled while isSubmitting || success
CustomerSubmit ==
    /\ OnCustomerPage
    /\ ~(view.isSubmitting \/ view.success)
    /\ Truthy(view.formData.name)
    /\ IF view.formData.customer_type = Str("sub-org") /\ ~Truthy(view.selectedParentOrg)
       THEN /\ view' = [view EXCEPT !.error =
                          Str("Please select a parent organization for sub-organizations")]
            /\ UNCHANGED <<run, error, ops, event>>
       ELSE IF ~createWebhookUrl
       THEN /\ ops < MaxOps
            /\ ops' = ops + 1
            /\ error' = Str("NEXT_PUBLIC_WEBHOOK_CREATE_CUSTOMER is not configured")
            /\ event' = Settled("addCustomer", "threw", "not configured", FALSE)
            /\ view' = [view EXCEPT !.error = error']
            /\ UNCHANGED run
       ELSE /\ ops < MaxOps
            /\ ops' = ops + 1
            /\ event' = Began("addCustomer")
            /\ view' = [view EXCEPT !.error = Null, !.isSubmitting = TRUE]
            /\ run' = [pc |-> "adding"]
            /\ UNCHANGED error
    /\ UNCHANGED <<customers, loading, webhookUrl, inFlight, data, invalidCustomers,
                   allCustomersFlattened, createWebhookUrl, pending, appVars, envVars,
                   clientWebhookUrl, page, requests, posting, now, dateNow, ticks, harnessVars>>

\* the record of an organization that the create-customer webhook made
RecNewOrg == [k |-> "object", id |-> Str("8"), name |-> Str("Acme"), customer_type |-> Str("org")]

\* responses of the create-customer webhook to the page
PageAddResponses == {Arr(<<RecNewOrg, RecNew>>), RecNoName}

\* addCustomer returns the new customer: clearFormDraft() and setSuccess(true)
CustomerCreated ==
    /\ OnCustomerPage
    /\ run.pc = "adding"
    /\ \E raw \in PageAddResponses :
         \E newCustomer \in {AddOutcome(raw, now)} :
             /\ ~newCustomer.threw
             /\ customers' = Append(customers, newCustomer.val)
             /\ event' = ("raw" :> raw) @@ Settled("addCustomer", "returned", "created", FALSE)
    /\ allCustomersFlattened' = HomeFlatten(customers')
    /\ error' = Null
    /\ formDraft' = Null
    /\ storedDraft' = Null
    /\ view' = [view EXCEPT !.success = TRUE]
    /\ run' = NoRun
    /\ UNCHANGED <<loading, webhookUrl, inFlight, data, invalidCustomers, storeVars, envVars,
                   clientWebhookUrl, page, requests, posting, now, dateNow, ticks,
                   harnessVars>>

\* addCustomer throws (the fetch rejects, the response is not OK or the body
\* is invalid): the catch of handleSubmit
CustomerRejected ==
    /\ OnCustomerPage
    /\ run.pc = "adding"
    /\ \/ /\ \E message \in AddFetchErrors : error' = Str(message)
          /\ event' = Settled("addCustomer", "threw", "failed", FALSE)
       \/ \E raw \in PageAddResponses :
            \E newCustomer \in {AddOutcome(raw, now)} :
                /\ newCustomer.threw
                /\ error' = Str(newCustomer.message)
                /\ event' = ("raw" :> raw) @@ Settled("addCustomer", "threw", "invalid", FALSE)
    /\ view' = [view EXCEPT !.error = error', !.isSubmitting = FALSE]
    /\ run' = NoRun
    /\ UNCHANGED <<customers, allCustomersFlattened, loading, webhookUrl, inFlight, data,
                   invalidCustomers, storeVars, appVars, envVars, clientWebhookUrl, page,
                   requests, posting, now, dateNow, ticks, harnessVars>>

\* the 2000 ms timer set on success fires: router.push("/")
CustomerRedirect ==
    /\ OnCustomerPage
    /\ view.success
    /\ page' = "/"
    /\ view' = NoView
    /\ UNCHANGED <<providerVars, appVars, envVars, clientWebhookUrl, run, requests, posting,
                   now, dateNow, ticks, harnessVars>>

\* how far the clock moves in one step
Jumps == {AutoSaveDelay, DraftLifetime - 1, DraftLifetime}

\* time passes; a timer fires when it is due, so the clock does not pass the
\* time a waiting timer is due at
Advance ==
    /\ ticks < MaxAdvances
    /\ ticks' = ticks + 1
    /\ \E jump \in Jumps :
         /\ \A i \in 1..Len(timers) : ~timers[i].fired => dateNow + jump <= timers[i].due
         /\ dateNow' = dateNow + jump
    /\ now' = StartOfTime + (dateNow' \div 1000)
    /\ UNCHANGED <<providerVars, appVars, envVars, pageVars, harnessVars>>

\* the browser holds no draft, or one saved by a session before; the
\* application is not loaded yet; the get-customers URL is not set, so the
\* customers are those that addCustomer appends
InitDrafts ==
    /\ customers = <<>>
    /\ loading = TRUE
    /\ error = Null
    /\ webhookUrl = FALSE
    /\ inFlight = 0
    /\ data = Undef
    /\ invalidCustomers = <<>>
    /\ allCustomersFlattened = <<>>
    /\ createWebhookUrl = TRUE
    /\ pending = {}
    /\ ops = 0
    /\ event = NoEvent
    /\ formDraft = Null
    /\ storedDraft \in {Null, Draft}
    /\ clientWebhookUrl = TRUE
    /\ page = "about:blank"
    /\ view = NoView
    /\ run = NoRun
    /\ requests = <<>>
    /\ posting = 0
    /\ timers = <<>>
    /\ loads = 0
    /\ clientsWebhooks = AllWebhooks
    /\ now = StartOfTime
    /\ dateNow = 0
    /\ ticks = 0
    /\ nPc = "idle"
    /\ nRaw = Undef
    /\ nOut = Threw
    /\ nOut2 = Threw

NextDrafts ==
    \/ AppLoad
    \/ GoCustomerCreate
    \/ CustomerInputChange
    \/ CustomerSelectParentOrg
    \/ RestoreDraft
    \/ DismissDraft
    \/ AutoSave
    \/ CustomerSubmit
    \/ CustomerCreated
    \/ CustomerRejected
    \/ CustomerRedirect
    \/ Advance

SpecDrafts == InitDrafts /\ [][NextDrafts]_vars

-----------------------------------------------------------------------------
(* transformCustomerData applied to one raw record, then to its own result *)

Field(key, v) == IF v = Undef THEN NoFields ELSE key :> v

IdChoices ==
    { <<Undef, Undef, Undef>>, <<Str("1"), Undef, Undef>>, <<Num(1), Undef, Undef>>,
      <<Str("5"), Str("9"), Undef>>, <<Null, Str("9"), Undef>>, <<Undef, Str("9"), Num(7)>>,
      <<Str(""), Str("9"), Undef>>, <<Undef, Undef, Null>> }

NameChoices ==
    { <<Undef, Undef>>, <<Str("A"), Undef>>, <<Str(""), Str("X")>>, <<Str("A"), Str("X")>> }

TypeChoices ==
    { <<Undef, Undef>>, <<Str("sub-org"), Undef>>, <<Str("partner"), Str("sub-org")>> }

CreatedChoices ==
    { <<Undef, Undef>>, <<Num(1700000000), Undef>>, <<Num(0), Str("2024-01-01T00:00:00Z")>>,
      <<Undef, Str("1970-01-01T00:00:00Z")>>, <<Undef, Str("not-a-date")>>,
      <<Num(1700000000), Str("2024-01-01T00:00:00Z")>> }

ParentNameChoices ==
    { <<Undef, Undef, Undef>>, <<Undef, Undef, Str("")>>, <<Undef, Str("P"), Str("Q")>> }

ChildCatalogue ==
    { SubB, SubE, OrgChild, SelfChild, SelfChildLiteral, SubWithChildren, SubWithNullChild,
      Null, Str("garbage") }

ChildLists == SeqsUpTo(ChildCatalogue, MaxChildren)

\* the children collection under each alias spelling, alone and shadowed
SubOrgsChoices ==
    { <<Arr(c), Undef, Undef>> : c \in ChildLists }
    \cup { <<Undef, Arr(c), Undef>> : c \in ChildLists }
    \cup { <<Null, Undef, Arr(c)>> : c \in ChildLists }
    \cup { <<Arr(<<>>), Arr(c), Undef>> : c \in ChildLists }
    \cup { <<Str("none"), Arr(c), Undef>> : c \in ChildLists }

RawRecord(ids, names, types, createds, parents, subs) ==
    [k |-> "object"]
    @@ Field("id", ids[1]) @@ Field("Id", ids[2]) @@ Field("ID", ids[3])
    @@ Field("name", names[1]) @@ Field("Name", names[2])
    @@ Field("customer_type", types[1]) @@ Field("customerType", types[2])
    @@ Field("created", createds[1]) @@ Field("CreatedAt", createds[2])
    @@ Field("parent_org_name", parents[1]) @@ Field("parentOrgName", parents[2])
    @@ Field("ParentOrgName", parents[3])
    @@ Field("suborgs", subs[1]) @@ Field("subOrgs", subs[2]) @@ Field("SubOrgs", subs[3])

NoSubOrgs == <<Undef, Undef, Undef>>

\* every scalar alias combination without children, and every children
\* collection under a few identifiers
RawInputs ==
    { RawRecord(i, n, t, c, p, NoSubOrgs) :
        i \in IdChoices, n \in NameChoices, t \in TypeChoices, c \in CreatedChoices,
        p \in ParentNameChoices }
    \cup { RawRecord(i, <<Str("A"), Undef>>, t, <<Undef, Undef>>, <<Undef, Undef, Undef>>, s) :
             i \in { <<Str("1"), Undef, Undef>>, <<Undef, Str("9"), Num(7)>>,
                     <<Undef, Undef, Undef>> },
             t \in { <<Undef, Undef>>, <<Str("sub-org"), Undef>> },
             s \in SubOrgsChoices }

InitNorm ==
    /\ customers = <<>>
    /\ loading = TRUE
    /\ error = Null
    /\ webhookUrl = TRUE
    /\ inFlight = 0
    /\ data = Undef
    /\ invalidCustomers = <<>>
    /\ allCustomersFlattened = <<>>
    /\ createWebhookUrl = TRUE
    /\ pending = {}
    /\ ops = 0
    /\ event = NoEvent
    /\ formDraft = Null
    /\ storedDraft = Null
    /\ clientWebhookUrl = TRUE
    /\ page = "/"
    /\ view = NoView
    /\ run = NoRun
    /\ requests = <<>>
    /\ posting = 0
    /\ timers = <<>>
    /\ loads = 1
    /\ clientsWebhooks = AllWebhooks
    /\ now = StartOfTime
    /\ dateNow = 0
    /\ ticks = 0
    /\ nPc = "start"
    /\ nRaw \in RawInputs
    /\ nOut = Threw
    /\ nOut2 = Threw

\* time passes
Tick ==
    /\ ticks < MaxTicks
    /\ now' = now + 1
    /\ dateNow' = dateNow + 1000
    /\ ticks' = ticks + 1
    /\ UNCHANGED <<providerVars, appVars, envVars, pageVars, harnessVars>>

\* transformCustomerData(raw)
NormFirst ==
    /\ nPc = "start"
    /\ nOut' = transformCustomerData(nRaw, now)
    /\ nPc' = "once"
    /\ UNCHANGED <<providerVars, appVars, envVars, pageVars, now, dateNow, ticks, nRaw, nOut2>>

\* transformCustomerData(entity), the entity being the first call's result
NormSecond ==
    /\ nPc = "once"
    /\ ~nOut.threw
    /\ nOut2' = transformCustomerData(nOut.val, now)
    /\ nPc' = "twice"
    /\ UNCHANGED <<providerVars, appVars, envVars, pageVars, now, dateNow, ticks, nRaw, nOut>>

NextNorm ==
    \/ Tick
    \/ NormFirst
    \/ NormSecond

SpecNorm == InitNorm /\ [][NextNorm]_vars

-----------------------------------------------------------------------------
(* Properties of refreshCustomers and of the flattener, under Spec *)

Records == IF IsArray(data) THEN data.items ELSE <<>>

IdAliases == {"id", "Id", "ID"}

NameAliases == {"name", "Name"}

ChildAliases == {"suborgs", "subOrgs", "SubOrgs"}

IsObject(r) == r.k = "object"

OffersId(r) == \E a \in IdAliases : ~Nullish(Get(r, a))

OffersName(r) == \E a \in NameAliases : ~Nullish(Get(r, a))

\* the identifier a record yields: a non-empty string under some id alias
ResolvableId(r) == \E a \in IdAliases : ~Nullish(Get(r, a)) /\ JsString(Get(r, a)) # ""

ResolvableName(r) == \E a \in NameAliases : Truthy(Get(r, a))

Diagnosed(i) == \E j \in 1..Len(invalidCustomers) : invalidCustomers[j].index = i - 1

DiagnosedAs(i, reason) ==
    \E j \in 1..Len(invalidCustomers) :
        invalidCustomers[j] = [index |-> i - 1, reason |-> reason]

\* the children a record lists, under whichever alias spelling carries a list
ListedChildren(r) ==
    IF \E a \in ChildAliases : IsArray(Get(r, a))
    THEN Get(r, CHOOSE a \in ChildAliases : IsArray(Get(r, a))).items
    ELSE <<>>

HasNoNullChild(r) == \A c \in 1..Len(ListedChildren(r)) : ~Nullish(ListedChildren(r)[c])

WellFormed(r) == IsObject(r) /\ ResolvableId(r) /\ ResolvableName(r) /\ HasNoNullChild(r)

LacksId(r) == IsObject(r) /\ ~OffersId(r) /\ ResolvableName(r) /\ HasNoNullChild(r)

\* C1: after an array response, every customer has a non-empty id and name
\* resolved from its source record; a record offering no id alias or no name
\* alias is recorded in the diagnostics and is not among the customers.
C1_RequiredFieldsResolved ==
    IsArray(data) =>
      /\ \A i \in 1..Len(customers) :
           /\ Truthy(customers[i].id) /\ Truthy(customers[i].name)
           /\ \E r \in 1..Len(Records) :
                \E a \in IdAliases :
                    /\ ~Nullish(Get(Records[r], a))
                    /\ customers[i].id = Str(JsString(Get(Records[r], a)))
      /\ \A r \in 1..Len(Records) :
           (IsObject(Records[r]) /\ (~OffersId(Records[r]) \/ ~OffersName(Records[r])))
             => Diagnosed(r)

ExactlyOneLacksId ==
    /\ IsArray(data)
    /\ Cardinality({r \in 1..Len(Records) : LacksId(Records[r])}) = 1
    /\ \A r \in 1..Len(Records) : LacksId(Records[r]) \/ WellFormed(Records[r])

WellFormedRecords == SelectSeq(Records, WellFormed)

\* C2: a batch of n records of which exactly one lacks an id, the others
\* valid, yields n-1 customers in their original order and one diagnostic.
C2_PartialBatch ==
    ExactlyOneLacksId =>
      /\ Len(customers) = Len(Records) - 1
      /\ Len(invalidCustomers) = 1
      /\ \A i \in 1..Len(customers) :
           i <= Len(WellFormedRecords)
             /\ \E a \in IdAliases :
                  /\ ~Nullish(Get(WellFormedRecords[i], a))
                  /\ customers[i].id = Str(JsString(Get(WellFormedRecords[i], a)))

\* C8: a record with a resolvable id and no resolvable name is recorded in the
\* diagnostics with reason 'missing name' and is not among the customers.
C8_MissingName ==
    IsArray(data) =>
      /\ Len(customers) + Len(invalidCustomers) = Len(Records)
      /\ \A r \in 1..Len(Records) :
           (IsObject(Records[r]) /\ ResolvableId(Records[r]) /\ ~ResolvableName(Records[r]))
             => DiagnosedAs(r, "missing name")

IdAliasOrder == <<"id", "Id", "ID">>

\* the value under the first id alias that is neither null nor undefined,
\* the value under ID when there is none
FirstOfferedId(r) ==
    LET offered == SelectSeq(IdAliasOrder, LAMBDA a : ~Nullish(Get(r, a)))
    IN  IF offered = <<>> THEN Get(r, "ID") ELSE Get(r, offered[1])

KindOf(c) ==
    IF Truthy(Get(c, "customer_type")) THEN Get(c, "customer_type")
    ELSE Get(c, "customerType")

ValidChild(c, parentId) ==
    /\ IsObject(c)
    /\ KindOf(c) = Str("sub-org")
    /\ JsString(FirstOfferedId(c)) # parentId

ValidChildren(r) ==
    SelectSeq(ListedChildren(r), LAMBDA c : ValidChild(c, JsString(FirstOfferedId(r))))

HasInvalidChild(r) == Len(ValidChildren(r)) < Len(ListedChildren(r))

PositionInCustomers(r) == r - Cardinality({q \in 1..(r - 1) : Diagnosed(q)})

\* C9: a record with resolvable id and name whose children collection holds
\* an invalid member (wrong kind, self-reference, null or non-object) is
\* accepted, with exactly its valid children.
C9_BadChildKeepsParent ==
    IsArray(data) =>
      \A r \in 1..Len(Records) :
        (/\ IsObject(Records[r]) /\ ResolvableId(Records[r]) /\ ResolvableName(Records[r])
         /\ HasInvalidChild(Records[r]))
          => /\ ~Diagnosed(r)
             /\ PositionInCustomers(r) <= Len(customers)
             /\ LET kept == customers[PositionInCustomers(r)].suborgs.items
                    valid == ValidChildren(Records[r])
                IN  /\ Len(kept) = Len(valid)
                    /\ \A c \in 1..Len(kept) :
                         kept[c].id = Str(JsString(FirstOfferedId(valid[c])))

RefreshedFromArray == event.op = "refreshCustomers" /\ event.branch = "array"

\* a record whose transformation reads a property of a null child
HasNullChild(r) == IsObject(r) /\ ~HasNoNullChild(r)

\* C14: when the transformation of one record of a batch throws, the record
\* is recorded in the diagnostics with reason 'transform error', every later
\* record is still processed (accepted in order, or diagnosed), and the
\* refreshCustomers call returns.
C14_TransformErrorRecovered ==
    RefreshedFromArray =>
      /\ event.outcome = "returned"
      /\ Len(customers) + Len(invalidCustomers) = Len(Records)
      /\ \A r \in 1..Len(Records) :
           HasNullChild(Records[r]) =>
             /\ DiagnosedAs(r, "transform error")
             /\ \A q \in (r + 1)..Len(Records) :
                  WellFormed(Records[q]) =>
                    /\ ~Diagnosed(q)
                    /\ PositionInCustomers(q) <= Len(customers)
                    /\ customers[PositionInCustomers(q)].id
                         = Str(JsString(FirstOfferedId(Records[q])))

\* a record with a null child followed by a well-formed record
C14_Witness ==
    /\ RefreshedFromArray
    /\ event.outcome = "returned"
    /\ Len(Records) = 2
    /\ HasNullChild(Records[1])
    /\ WellFormed(Records[2])
    /\ invalidCustomers = <<[index |-> 0, reason |-> "transform error"]>>
    /\ Len(customers) = 1

\* C25: the step in which a refreshCustomers call ends because its fetch
\* rejected or answered with a non-OK status leaves customers (and the list
\* flattened from it) exactly as it was, sets error to the failure message
\* and loading to false, and the call returns: it does not throw.
C25_FailedRefreshKeepsList ==
    [][(event'.op = "refreshCustomers" /\ event'.branch = "failed"
          /\ inFlight' = inFlight - 1) =>
         /\ customers' = customers
         /\ allCustomersFlattened' = allCustomersFlattened
         /\ error' \in {Str(message) : message \in FetchErrors}
         /\ loading' = FALSE
         /\ event'.outcome = "returned"]_vars

\* a list of two customers survived a refresh whose fetch rejected
C25_Witness ==
    /\ event = Settled("refreshCustomers", "returned", "failed", FALSE)
    /\ Len(customers) = 2
    /\ Len(allCustomersFlattened) >= 2
    /\ error = Str("Failed to fetch")
    /\ loading = FALSE

ChildrenOf(customer) ==
    IF "suborgs" \in DOMAIN customer /\ IsArray(customer.suborgs)
    THEN customer.suborgs.items ELSE <<>>

RECURSIVE RowsBefore(_)
RowsBefore(i) ==
    IF i = 1 THEN 0 ELSE RowsBefore(i - 1) + 1 + Len(ChildrenOf(customers[i - 1]))

WithoutKey(row) == [f \in DOMAIN row \ {"uniqueKey"} |-> row[f]]

\* C4: the flattened list is each top-level customer in input order, each
\* immediately followed by its sub-orgs in stored order, one row per
\* occurrence; its length is the number of customers plus that of children.
C4_FlattenOrder ==
    /\ Len(allCustomersFlattened) = RowsBefore(Len(customers) + 1)
    /\ \A i \in 1..Len(customers) :
         /\ WithoutKey(allCustomersFlattened[RowsBefore(i) + 1]) = customers[i]
         /\ \A c \in 1..Len(ChildrenOf(customers[i])) :
              LET row == allCustomersFlattened[RowsBefore(i) + 1 + c]
                  child == ChildrenOf(customers[i])[c]
              IN  /\ DOMAIN row = DOMAIN child \cup {"uniqueKey", "parent_org_name"}
                  /\ \A f \in DOMAIN child \ {"parent_org_name"} : row[f] = child[f]

\* [A(children = [A1, A2]), B(children = [])] flattened to [A, A1, A2, B]
C4_Witness ==
    /\ Len(customers) = 2
    /\ Len(ChildrenOf(customers[1])) = 2
    /\ Len(ChildrenOf(customers[2])) = 0
    /\ Len(allCustomersFlattened) = 4
    /\ allCustomersFlattened[4].id = customers[2].id
    /\ allCustomersFlattened[1].id # allCustomersFlattened[4].id

\* C18: every child row of the flattened list has for parent_org_name the
\* name of the top-level customer that stores the child, whatever the child
\* carried; every top-level row keeps the parent_org_name of its customer.
C18_ParentNameOverride ==
    /\ Len(allCustomersFlattened) = RowsBefore(Len(customers) + 1)
    /\ \A i \in 1..Len(customers) :
         /\ allCustomersFlattened[RowsBefore(i) + 1].parent_org_name
              = customers[i].parent_org_name
         /\ \A c \in 1..Len(ChildrenOf(customers[i])) :
              allCustomersFlattened[RowsBefore(i) + 1 + c].parent_org_name
                = customers[i].name

\* a top-level customer that carries a parent name, with a child that
\* carries another one
C18_Witness ==
    /\ Len(customers) = 1
    /\ Truthy(customers[1].parent_org_name)
    /\ Len(ChildrenOf(customers[1])) = 1
    /\ Truthy(ChildrenOf(customers[1])[1].parent_org_name)
    /\ ChildrenOf(customers[1])[1].parent_org_name # customers[1].name
    /\ Len(allCustomersFlattened) = 2
    /\ allCustomersFlattened[1].parent_org_name = customers[1].parent_org_name
    /\ allCustomersFlattened[2].parent_org_name = customers[1].name

\* C5: the uniqueKey values of the flattened list are pairwise distinct.
C5_KeysDistinct ==
    \A i, j \in 1..Len(allCustomersFlattened) :
        i # j => allCustomersFlattened[i].uniqueKey # allCustomersFlattened[j].uniqueKey

-----------------------------------------------------------------------------
(* Properties of the CustomerProvider operations, under SpecProvider *)

\* C12: in every reachable state, whatever refreshCustomers, addCustomer,
\* updateCustomer and deleteCustomer calls and responses came before, no two
\* Entities of customers have the same id.
C12_IdsUnique ==
    \A i, j \in 1..Len(customers) : i # j => customers[i].id # customers[j].id

\* C15: a get-customers response whose body is not a list makes
\* refreshCustomers return (it does not throw) with customers empty and
\* loading false.
C15_NotAListGivesEmpty ==
    (event.op = "refreshCustomers" /\ event.branch = "not an array") =>
      /\ event.outcome = "returned"
      /\ customers = <<>>
      /\ loading = FALSE

\* a non-list body arrived while customers held an Entity made locally
C15_Witness ==
    /\ event = Settled("refreshCustomers", "returned", "not an array", TRUE)
    /\ ~IsArray(data)
    /\ customers = <<>>
    /\ loading = FALSE

\* the Entities of the records of the last response that were not diagnosed
AcceptedOfResponse ==
    LET kept == SelectSeq([r \in 1..Len(Records) |-> r], LAMBDA r : ~Diagnosed(r))
    IN  [j \in 1..Len(kept) |-> transformCustomerData(Records[kept[j]], now).val]

\* C16: right after refreshCustomers succeeds with an array response,
\* customers is exactly the accepted Entities of that response, in response
\* order; nothing of the list it replaces is kept or merged.
C16_RefreshReplaces ==
    RefreshedFromArray =>
      /\ Len(customers) = Len(Records) - Len(invalidCustomers)
      /\ customers = AcceptedOfResponse

\* the replaced list held an Entity that addCustomer appended or
\* updateCustomer renamed, and the new list holds none
C16_Witness ==
    /\ RefreshedFromArray
    /\ event.overwrote
    /\ Len(customers) = 2
    /\ \A i \in 1..Len(customers) : customers[i].name \notin LocalNames

\* the customer c after the call replaced the fields named in updates
FieldsReplaced(c, after, updates) ==
    /\ DOMAIN after = DOMAIN c \cup DOMAIN updates
    /\ \A f \in DOMAIN updates : after[f] = updates[f]
    /\ \A f \in DOMAIN c \ DOMAIN updates : after[f] = c[f]

\* C17: the step that completes updateCustomer(id, updates) replaces, in
\* every customer whose id is id, exactly the fields of updates (a supplied
\* suborgs replaces the whole child list) and leaves every other field, every
\* other customer and the length and order of customers unchanged.
C17_UpdateReplacesFields ==
    [][\A call \in PendingCalls("updateCustomer") :
          call \notin pending' =>
            /\ Len(customers') = Len(customers)
            /\ \A i \in 1..Len(customers) :
                 IF customers[i].id = call.id
                 THEN FieldsReplaced(customers[i], customers'[i], call.updates)
                 ELSE customers'[i] = customers[i]]_vars

\* two customers of the same id, both renamed by one call, children kept
C17_Witness ==
    /\ event = Settled("updateCustomer", "returned", "updated", FALSE)
    /\ Len(customers) = 2
    /\ customers[1].id = customers[2].id
    /\ customers[1].name = Str("Z") /\ customers[2].name = Str("Z")
    /\ Len(customers[1].suborgs.items) = 2

\* a step in which an addCustomer call ends
AddEnds ==
    /\ event'.op = "addCustomer"
    /\ event'.outcome # "pending"
    /\ (pending' # pending \/ ops' # ops)

\* the record that addCustomer takes from the response body
AddedRecord(raw) == IF IsArray(raw) THEN raw.items[1] ELSE raw

\* a response body that is an empty array, or whose record offers no id or
\* no name
LacksRequiredFields(raw) ==
    \/ IsArray(raw) /\ raw.items = <<>>
    \/ ~(IsArray(raw) /\ raw.items = <<>>)
         /\ IsObject(AddedRecord(raw))
         /\ (~OffersId(AddedRecord(raw)) \/ ~ResolvableName(AddedRecord(raw)))

\* C24: every addCustomer call ends in one of two ways. It returns: exactly
\* one Entity with non-empty id and name is appended to the end of customers
\* and error is null. Or it throws: customers is unchanged and error holds
\* the message. It throws when the webhook is not configured, when the
\* response is not OK, and when the body is an empty array or lacks a
\* required field (id, name).
C24_AddOutcomes ==
    [][AddEnds =>
         /\ event'.outcome \in {"returned", "threw"}
         /\ event'.outcome = "returned" =>
               /\ Len(customers') = Len(customers) + 1
               /\ SubSeq(customers', 1, Len(customers)) = customers
               /\ Truthy(customers'[Len(customers')].id)
               /\ Truthy(customers'[Len(customers')].name)
               /\ error' = Null
         /\ event'.outcome = "threw" =>
               /\ customers' = customers
               /\ error'.k = "string" /\ error'.s # ""
         /\ event'.branch \in {"not configured", "failed"} => event'.outcome = "threw"
         /\ ("raw" \in DOMAIN event' /\ LacksRequiredFields(event'.raw)) =>
               event'.outcome = "threw"]_vars

\* the rows home, client and batch of the three flatteners agree
FlattenersAgree(home, client, batch) ==
    /\ batch = client
    /\ Len(client) = Len(home)
    /\ Len(home) = RowsBefore(Len(customers) + 1)
    /\ \A i \in 1..Len(customers) :
         /\ client[RowsBefore(i) + 1] = home[RowsBefore(i) + 1]
         /\ \A c \in 1..Len(ChildrenOf(customers[i])) :
              \A h \in {home[RowsBefore(i) + 1 + c]}, r \in {client[RowsBefore(i) + 1 + c]} :
                  /\ DOMAIN r = DOMAIN h \cup {"parent_org_id"}
                  /\ \A f \in DOMAIN r \ {"parent_org_id"} : r[f] = h[f]
                  /\ r.parent_org_id = customers[i].id

\* C29: for every customers list the flatteners of the home page, of the
\* client-create page and of the batch page give the same rows in the same
\* order, with the same entity fields, uniqueKey and parent_org_name; the
\* rows of the two pages differ from the home page's only by parent_org_id,
\* the parent's id, on the child rows.
C29_FlattenersEquivalent ==
    FlattenersAgree(HomeFlatten(customers), ClientFlattenFrom(customers, 1, <<>>),
                    BatchFlattenFrom(customers, 1, <<>>))

\* two customers with children, one child carrying a parent name of its
\* own: five rows, the child rows of the pages with the parent's id
C29_Witness ==
    /\ Len(customers) = 2
    /\ Len(ChildrenOf(customers[1])) = 2
    /\ Len(ChildrenOf(customers[2])) = 1
    /\ Truthy(ChildrenOf(customers[2])[1].parent_org_name)
    /\ Len(BatchFlattenFrom(customers, 1, <<>>)) = 5
    /\ ClientFlattenFrom(customers, 1, <<>>)[2].parent_org_id = customers[1].id
    /\ BatchFlattenFrom(customers, 1, <<>>)[5].parent_org_id = customers[2].id
    /\ BatchFlattenFrom(customers, 1, <<>>)[5].parent_org_name = customers[2].name
    /\ "parent_org_id" \notin DOMAIN allCustomersFlattened[5]

-----------------------------------------------------------------------------
(* Properties of overlapping refreshCustomers calls, under SpecOverlap *)

\* C26: once refreshCustomers was called, loading is true in every state in
\* which at least one call awaits its fetch and false in every state in which
\* none does, however the calls overlap.
C26_LoadingTracksInFlight == event.op # "none" => (loading <=> inFlight > 0)

-----------------------------------------------------------------------------
(* Properties of the client-create and batch pages, under SpecPages *)

\* C19: every create-client request sent by either page carries the
\* parent_org_id and the parent_org_name of the parent of the sub-org it was
\* sent for (every selectable customer is of kind sub-org).
C19_ParentDetailsSent ==
    \A q \in 1..Len(requests) :
        /\ Truthy(Get(requests[q], "parent_org_id"))
        /\ Truthy(Get(requests[q], "parent_org_name"))
        /\ \E i \in 1..Len(customers) :
             /\ \E c \in 1..Len(ChildrenOf(customers[i])) :
                  ChildrenOf(customers[i])[c].id = Get(requests[q], "customer_id")
             /\ Get(requests[q], "parent_org_id") = customers[i].id
             /\ Get(requests[q], "parent_org_name") = customers[i].name

BatchValidationErrors ==
    {Str("Please select a sub-organization"), Str("Please enter a number between 1 and 1000")}

\* the form of the batch page does not hold a sub-org and a number of
\* clients between 1 and 1000
BatchFormInvalid ==
    \/ view.selectedCustomer = Null
    \/ view.numberOfClients.n < 1
    \/ view.numberOfClients.n > ClientLimit

\* C20: on the batch page a step taken while no submission runs and the form
\* is invalid sends nothing, and a submission then only sets a validation
\* error (and empties the list of created clients); a request is sent only for
\* a submission with a sub-org and 1 <= numberOfClients <= 1000, the next one
\* only in the step in which the previous one settled, so at most one is in
\* flight; when the submission succeeds exactly numberOfClients were sent.
C20_BatchSequential ==
    [][OnBatchPage =>
         /\ (~view.isSubmitting /\ BatchFormInvalid) =>
               /\ requests' = requests /\ posting' = posting /\ run' = run
               /\ (\/ page' # page
                   \/ view'.selectedCustomer # view.selectedCustomer
                   \/ view'.numberOfClients # view.numberOfClients
                   \/ view' = view
                   \/ /\ view'.error \in BatchValidationErrors
                      /\ view' = [view EXCEPT !.error = view'.error, !.createdClients = <<>>])
         /\ posting' <= 1
         /\ requests' # requests =>
               /\ Len(requests') = Len(requests) + 1
               /\ posting' = 1
               /\ Truthy(run'.selectedCustomer)
               /\ run'.numberOfClients >= 1 /\ run'.numberOfClients <= ClientLimit
               /\ Len(requests') = run'.i + 1
               /\ run'.i < run'.numberOfClients
         /\ (page' = page /\ view'.success) =>
               /\ posting' = 0
               /\ Len(requests') = view'.numberOfClients.n]_vars

\* three clients were asked for, three requests were sent and none is in flight
C20_Witness ==
    /\ OnBatchPage
    /\ view.success
    /\ view.numberOfClients = Num(3)
    /\ Len(requests) = 3
    /\ posting = 0

\* the counters of the attempt that settles in this step, from the locals of
\* the run before it and the list of created clients after it
SettledSuccessCount == run.successCount + (IF view'.createdClients # run.created THEN 1 ELSE 0)

SettledFailCount == run.failCount + (IF view'.createdClients # run.created THEN 0 ELSE 1)

\* C21: during a batch run progress.total is numberOfClients and
\* progress.current starts at 0, grows by exactly 1 in each step in which an
\* attempt settles (successful or failed) and never exceeds total; the list
\* of created clients has at most progress.current entries; when the loop
\* ends successCount + failCount = total and the list of created clients has
\* exactly successCount entries.
C21_ProgressCounts ==
    [][(OnBatchPage /\ page' = page) =>
         /\ (~view.isSubmitting /\ view'.isSubmitting) =>
               view'.progress = [current |-> 0, total |-> view.numberOfClients.n]
         /\ view'.isSubmitting =>
               /\ view'.progress.total = view'.numberOfClients.n
               /\ view'.progress.current \in 0..view'.progress.total
               /\ Len(view'.createdClients) <= view'.progress.current
         /\ (run.pc = "fetching" /\ run' # run) =>
               /\ view'.progress.current = view.progress.current + 1
               /\ view'.progress.total = view.progress.total
               /\ view'.createdClients \in
                    {view.createdClients} \cup
                    {Append(view.createdClients, name) : name \in ClientNames}
         /\ (run.pc # "fetching" /\ view.isSubmitting) =>
               view'.progress = view.progress
         /\ run'.pc = "fetching" =>
               /\ run'.successCount + run'.failCount = view'.progress.current
               /\ run'.i = view'.progress.current
               /\ run'.i < view'.progress.total
               /\ Len(view'.createdClients) = run'.successCount
         /\ (run.pc = "fetching" /\ run'.pc = "idle") =>
               /\ view'.success
               /\ SettledSuccessCount + SettledFailCount = view'.progress.total
               /\ view'.progress.current = view'.progress.total
               /\ Len(view'.createdClients) = SettledSuccessCount]_vars

\* a run of three attempts of which the second failed has ended
C21_Witness ==
    /\ OnBatchPage
    /\ view.success
    /\ view.progress = [current |-> 3, total |-> 3]
    /\ Len(view.createdClients) = 2
    /\ view.error = Str("Created 2 clients successfully, 1 failed")

BatchResultMessage(successCount, failCount) ==
    Str("Created " \o NumToStr(successCount) \o " clients successfully, "
        \o NumToStr(failCount) \o " failed")

\* C28: in the step in which a create-client request of a batch settles,
\* failed or not, the request of the next client is sent if one remains;
\* when none remains success is set to true whatever the outcomes were, and
\* error is the 'Created X clients successfully, Y failed' message if
\* failCount > 0 and stays null otherwise.
C28_FailureDoesNotAbort ==
    [][(OnBatchPage /\ run.pc = "fetching" /\ run' # run) =>
         IF run.i + 1 < run.numberOfClients
         THEN /\ run'.pc = "fetching"
              /\ run'.i = run.i + 1
              /\ Len(requests') = Len(requests) + 1
              /\ ~view'.success
              /\ view'.error = Null
         ELSE /\ run'.pc = "idle"
              /\ requests' = requests
              /\ view'.success
              /\ view'.error =
                   IF SettledFailCount > 0
                   THEN BatchResultMessage(SettledSuccessCount, SettledFailCount)
                   ELSE Null]_vars

\* a run of two clients whose first request failed went on to the second,
\* which succeeded, and ended with success set
C28_Witness ==
    /\ OnBatchPage
    /\ view.success
    /\ view.numberOfClients = Num(2)
    /\ Len(requests) = 2
    /\ Len(view.createdClients) = 1
    /\ view.createdClients[1] = requests[2].name.s
    /\ view.error = BatchResultMessage(1, 1)

-----------------------------------------------------------------------------
(* ClientsView: the clients of one sub-organization, pause and resume *)

\* the variables that the clients page leaves alone
clientsFrame == <<customers, loading, error, webhookUrl, inFlight, data, invalidCustomers,
                  allCustomersFlattened, createWebhookUrl, pending, appVars, timers,
                  clientWebhookUrl, page, requests, posting, now, dateNow, ticks,
                  harnessVars>>

OnClientsPage == page = "/clients"

\* the useState values of ClientsView, with the suborg parameter of the URL
ClientsViewOf(suborgId) ==
    [k |-> "ClientsView", suborgId |-> suborgId, clients |-> <<>>, loading |-> TRUE,
     error |-> Null, actionLoading |-> Null]

\* a record of the get-clients webhook
RawClient(id, status) ==
    [k |-> "object", id |-> Str(id), name |-> Str("Client"), customer_id |-> Str("7"),
     stripe_subscription_id |-> Str("sub"), stripe_subscription_status |-> Str(status)]

ClientStatuses == {"active", "paused"}

ClientLists == {<<RawClient("1", a), RawClient("2", b)>> : a \in ClientStatuses, b \in ClientStatuses}

\* response bodies of the get-clients webhook: a direct array, { data: [...] },
\* [{ data: [...] }] and a body that holds no list
ClientBodies ==
    {Arr(list) : list \in ClientLists}
        \cup {Arr(<<>>),
              [k |-> "object", data |-> Arr(<<RawClient("1", "active")>>)],
              Arr(<<[k |-> "object", data |-> Arr(<<RawClient("2", "paused")>>)]>>),
              [k |-> "object", message |-> Str("Workflow was started")]}

ClientsFetchErrors == {"Failed to fetch clients: Internal Server Error", "Failed to fetch"}

\* the unwrapping of the response formats, for bodies whose items are objects
UnwrapClients(body) ==
    IF IsArray(body) /\ Len(body.items) > 0 /\ Truthy(Get(body.items[1], "data"))
    THEN Get(body.items[1], "data")
    ELSE IF Truthy(body) /\ Truthy(Get(body, "data")) /\ IsArray(Get(body, "data"))
         THEN Get(body, "data")
         ELSE body

\* one element of transformedClients
TransformClient(client) ==
    [k |-> "object",
     id |-> Str(JsString(Or(Get(client, "id"), Get(client, "Id")))),
     name |-> Or(Or(Get(client, "name"), Get(client, "Name")), Str("")),
     customer_id |-> Str(JsString(Or(Or(Or(Get(client, "customer_id"), Get(client, "customerId")),
                                        Get(client, "CustomerId")), Str("")))),
     org_name |-> Or(Or(Or(Get(client, "org_name"), Get(client, "orgName")),
                        Get(client, "OrgName")), Str("")),
     parent_org_id |-> Or(Or(Get(client, "parent_org_id"), Get(client, "parentOrgId")),
                          Get(client, "ParentOrgId")),
     parent_org_name |-> Or(Or(Get(client, "parent_org_name"), Get(client, "parentOrgName")),
                            Get(client, "ParentOrgName")),
     created |-> Or(Get(client, "created"),
                    IF Truthy(Get(client, "CreatedAt"))
                    THEN DateSeconds(Get(client, "CreatedAt")) ELSE Undef),
     stripe_customer_id |-> Or(Get(client, "stripe_customer_id"), Get(client, "stripeCustomerId")),
     stripe_subscription_id |-> Or(Get(client, "stripe_subscription_id"),
                                   Get(client, "stripeSubscriptionId")),
     stripe_subscription_status |-> Or(Get(client, "stripe_subscription_status"),
                                       Get(client, "stripeSubscriptionStatus"))]

\* what fetchClients passes to setClients for a response body
ClientsOfBody(body) ==
    IF IsArray(UnwrapClients(body))
    THEN [i \in 1..Len(UnwrapClients(body).items) |-> TransformClient(UnwrapClients(body).items[i])]
    ELSE <<>>

\* the table of clients is rendered
TableShown == OnClientsPage /\ ~view.loading /\ ~Truthy(view.error) /\ Len(view.clients) > 0

\* the call of fetchClients that the mount effect makes
MountCall == [n |-> 0, op |-> "mount", client |-> Null, pc |-> "refreshing"]

\* the pause and resume calls that did not reach their finally block yet
ActionCalls == {call \in run : call.op \in {"pause", "resume"}}

\* the mount effect: fetchClients()
ClientsMount ==
    /\ OnClientsPage
    /\ loads = 0
    /\ loads' = 1
    /\ IF ~Truthy(view.suborgId)
       THEN /\ view' = [view EXCEPT
                          !.error = Str("No sub-organization specified. Please select a sub-org from the homepage."),
                          !.loading = FALSE]
            /\ run' = run
       ELSE IF ~clientsWebhooks.get
            THEN /\ view' = [view EXCEPT !.clients = <<>>, !.loading = FALSE, !.error = Null]
                 /\ run' = run
            ELSE /\ view' = [view EXCEPT !.loading = TRUE, !.error = Null]
                 /\ run' = run \cup {MountCall}
    /\ UNCHANGED <<clientsFrame, clientsWebhooks, ops, event>>

\* handlePauseSubscription up to its return, or to the await of its fetch; the
\* button is there for an active client and is disabled while actionLoading is
\* the client's id
PauseClick ==
    /\ TableShown
    /\ ops < MaxOps
    /\ \E i \in 1..Len(view.clients) :
         /\ view.clients[i].stripe_subscription_status = Str("active")
         /\ view.actionLoading # view.clients[i].id
         /\ IF ~clientsWebhooks.pause
            THEN /\ event' = Settled("pause", "returned", "alert: not configured", FALSE)
                 /\ UNCHANGED <<view, run>>
            ELSE /\ event' = Began("pause")
                 /\ view' = [view EXCEPT !.actionLoading = view.clients[i].id]
                 /\ run' = run \cup {[n |-> ops + 1, op |-> "pause",
                                      client |-> view.clients[i].id, pc |-> "posting"]}
    /\ ops' = ops + 1
    /\ UNCHANGED <<clientsFrame, clientsWebhooks, loads>>

\* handleResumeSubscription up to its return, or to the await of its fetch; the
\* button is there for a paused client and is disabled while actionLoading is
\* the client's id
ResumeClick ==
    /\ TableShown
    /\ ops < MaxOps
    /\ \E i \in 1..Len(view.clients) :
         /\ view.clients[i].stripe_subscription_status = Str("paused")
         /\ view.actionLoading # view.clients[i].id
         /\ IF ~clientsWebhooks.resume
            THEN /\ event' = Settled("resume", "returned", "alert: not configured", FALSE)
                 /\ UNCHANGED <<view, run>>
            ELSE /\ event' = Began("resume")
                 /\ view' = [view EXCEPT !.actionLoading = view.clients[i].id]
                 /\ run' = run \cup {[n |-> ops + 1, op |-> "resume",
                                      client |-> view.clients[i].id, pc |-> "posting"]}
    /\ ops' = ops + 1
    /\ UNCHANGED <<clientsFrame, clientsWebhooks, loads>>

\* the pause or resume request fails (the fetch rejects or the response is
\* not OK): the catch alerts, the finally block runs setActionLoading(null)
ActionFailed ==
    /\ OnClientsPage
    /\ \E call \in run :
         /\ call.pc = "posting"
         /\ run' = run \ {call}
         /\ event' = Settled(call.op, "returned", "alert: failed", FALSE)
    /\ view' = [view EXCEPT !.actionLoading = Null]
    /\ UNCHANGED <<clientsFrame, clientsWebhooks, loads, ops>>

\* the pause or resume request succeeds: the handler calls fetchClients(),
\* which runs to its return (no URL: the finally block of the handler follows)
\* or to the await of its fetch
ActionPosted ==
    /\ OnClientsPage
    /\ \E call \in run :
         /\ call.pc = "posting"
         /\ IF ~clientsWebhooks.get
            THEN /\ view' = [view EXCEPT !.clients = <<>>, !.loading = FALSE, !.error = Null,
                                         !.actionLoading = Null]
                 /\ run' = run \ {call}
                 /\ event' = Settled(call.op, "returned", "not configured", FALSE)
            ELSE /\ view' = [view EXCEPT !.loading = TRUE, !.error = Null]
                 /\ run' = (run \ {call}) \cup {[call EXCEPT !.pc = "refreshing"]}
                 /\ event' = Began("fetchClients")
    /\ UNCHANGED <<clientsFrame, clientsWebhooks, loads, ops>>

\* what the finally block of the handler that awaited fetchClients does
AfterFetch(call, settled) ==
    IF call.op = "mount" THEN settled ELSE [settled EXCEPT !.actionLoading = Null]

\* the get-clients request of a fetchClients call fails: its catch and its
\* finally block, then the finally block of the handler that awaited it
ClientsFetchFailed ==
    /\ OnClientsPage
    /\ \E call \in run :
         /\ call.pc = "refreshing"
         /\ \E message \in ClientsFetchErrors :
              view' = AfterFetch(call, [view EXCEPT !.error = Str(message), !.loading = FALSE])
         /\ run' = run \ {call}
         /\ event' = Settled("fetchClients", "returned", "caught", FALSE)
    /\ UNCHANGED <<clientsFrame, clientsWebhooks, loads, ops>>

\* the get-clients request of a fetchClients call is answered: setClients,
\* its finally block, then the finally block of the handler that awaited it
ClientsFetched ==
    /\ OnClientsPage
    /\ \E call \in run :
         /\ call.pc = "refreshing"
         /\ \E body \in ClientBodies :
              view' = AfterFetch(call, [view EXCEPT !.clients = ClientsOfBody(body),
                                                    !.loading = FALSE])
         /\ run' = run \ {call}
         /\ event' = Settled("fetchClients", "returned", "loaded", FALSE)
    /\ UNCHANGED <<clientsFrame, clientsWebhooks, loads, ops>>

\* the route /clients is open, with or without its suborg parameter; the
\* mount effect did not run yet
InitClients ==
    /\ customers = <<>>
    /\ loading = FALSE
    /\ error = Null
    /\ webhookUrl = FALSE
    /\ inFlight = 0
    /\ data = Undef
    /\ invalidCustomers = <<>>
    /\ allCustomersFlattened = <<>>
    /\ createWebhookUrl = TRUE
    /\ pending = {}
    /\ ops = 0
    /\ event = NoEvent
    /\ formDraft = Null
    /\ storedDraft = Null
    /\ clientWebhookUrl = TRUE
    /\ page = "/clients"
    /\ \E suborgId \in {Null, Str("7")} : view = ClientsViewOf(suborgId)
    /\ run = {}
    /\ requests = <<>>
    /\ posting = 0
    /\ timers = <<>>
    /\ loads = 0
    /\ clientsWebhooks \in [{"get", "pause", "resume"} -> BOOLEAN]
    /\ now = StartOfTime
    /\ dateNow = 0
    /\ ticks = 0
    /\ nPc = "idle"
    /\ nRaw = Undef
    /\ nOut = Threw
    /\ nOut2 = Threw

NextClients ==
    \/ ClientsMount
    \/ PauseClick
    \/ ResumeClick
    \/ ActionFailed
    \/ ActionPosted
    \/ ClientsFetchFailed
    \/ ClientsFetched

SpecClients == InitClients /\ [][NextClients]_vars

-----------------------------------------------------------------------------
(* Properties of the form draft, under SpecDrafts *)

\* the timer that fires in this step
FiredTimer == CHOOSE i \in 1..Len(timers) : timers'[i].fired /\ ~timers[i].fired

\* an auto-save timer fires in this step: saveFormDraft is called
SavesDraft ==
    /\ Len(timers') = Len(timers)
    /\ \E i \in 1..Len(timers) : timers'[i].fired /\ ~timers[i].fired

C23_DraftStaysCleared ==
    (OnCustomerPage /\ view.success) => (formDraft = Null /\ storedDraft = Null)

-----------------------------------------------------------------------------
(* Properties of the clients page, under SpecClients *)

\* C27: while a pause or resume request for a client is in flight,
\* actionLoading is that client's id, and actionLoading is null whenever no
\* pause or resume request is in flight, whatever the interleaving of the
\* requests for different clients.
C27_ActionLoadingTracksRequest ==
    /\ \A call \in ActionCalls : view.actionLoading = call.client
    /\ ActionCalls = {} => view.actionLoading = Null

-----------------------------------------------------------------------------
(* Properties of transformCustomerData, under SpecNorm *)

Produced == nPc \in {"once", "twice"} /\ ~nOut.threw

RECURSIVE ChildrenFiltered(_)
ChildrenFiltered(e) ==
    \A c \in 1..Len(e.suborgs.items) :
        /\ e.suborgs.items[c].customer_type = Str("sub-org")
        /\ e.suborgs.items[c].id # e.id
        /\ ChildrenFiltered(e.suborgs.items[c])

\* the children collection of a raw record: the first alias holding a truthy value
RawChildren(r) ==
    LET present == SelectSeq(<<"suborgs", "subOrgs", "SubOrgs">>, LAMBDA a : Truthy(Get(r, a)))
    IN  IF present # <<>> /\ IsArray(Get(r, present[1]))
        THEN Get(r, present[1]).items ELSE <<>>

SurvivingChildren(r) ==
    SelectSeq(RawChildren(r), LAMBDA c : ValidChild(c, JsString(FirstOfferedId(r))))

\* C3: each member of a produced Entity's suborgs has customer_type 'sub-org'
\* and an id different from its parent's; a self-referencing child and a
\* child of kind org are dropped, a sibling of kind sub-org is kept.
C3_ChildrenFiltered ==
    Produced =>
      /\ ChildrenFiltered(nOut.val)
      /\ Len(nOut.val.suborgs.items) = Len(SurvivingChildren(nRaw))
      /\ \A c \in 1..Len(nOut.val.suborgs.items) :
           nOut.val.suborgs.items[c].id = Str(JsString(FirstOfferedId(SurvivingChildren(nRaw)[c])))

\* a parent listing itself, a child of kind org and a child of kind sub-org
C3_Witness ==
    /\ Produced
    /\ \E c \in 1..Len(RawChildren(nRaw)) :
         /\ IsObject(RawChildren(nRaw)[c])
         /\ KindOf(RawChildren(nRaw)[c]) = Str("sub-org")
         /\ Str(JsString(FirstOfferedId(RawChildren(nRaw)[c]))) = nOut.val.id
    /\ \E c \in 1..Len(RawChildren(nRaw)) :
         /\ IsObject(RawChildren(nRaw)[c])
         /\ KindOf(RawChildren(nRaw)[c]) = Str("sub-org")
         /\ Str(JsString(FirstOfferedId(RawChildren(nRaw)[c]))) # nOut.val.id
    /\ Len(RawChildren(nRaw)) = 2
    /\ Len(nOut.val.suborgs.items) = 1

\* C6: normalising an already normalised Entity returns an equal Entity, in
\* every field, whatever the clock reads at the second call.
C6_Idempotent == nPc = "twice" => nOut2 = nOut

\* C7 as stated: whenever the record contains both id and Id, the value
\* under id wins.
C7_IdKeyWins ==
    (Produced /\ "id" \in DOMAIN nRaw /\ "Id" \in DOMAIN nRaw)
      => nOut.val.id = Str(JsString(nRaw.id))

\* C7: the identifier is the stringified value of the first of id, Id, ID
\* that is neither null nor undefined (of ID when there is none); a record
\* whose id holds a value other than null keeps it whatever Id holds.
C7_FirstOfferedIdWins ==
    Produced =>
      /\ nOut.val.id = Str(JsString(FirstOfferedId(nRaw)))
      /\ ("id" \in DOMAIN nRaw /\ nRaw.id # Null) => nOut.val.id = Str(JsString(nRaw.id))

\* {id: '5', Id: '9', name: ...} gives id '5'
C7_Witness ==
    /\ Produced
    /\ Get(nRaw, "id") = Str("5")
    /\ Get(nRaw, "Id") = Str("9")
    /\ nOut.val.id = Str("5")

\* C10: each child of a produced Entity has an empty suborgs list.
C10_NoGrandchildren ==
    Produced =>
      \A c \in 1..Len(nOut.val.suborgs.items) :
          nOut.val.suborgs.items[c].suborgs.items = <<>>

\* C11: every produced Entity has customer_type 'org' or 'sub-org'; a record
\* whose kind is absent or holds an unrecognized value gets 'org'.
C11_KindIsOrgOrSubOrg ==
    Produced =>
      /\ nOut.val.customer_type \in {Str("org"), Str("sub-org")}
      /\ KindOf(nRaw) \notin {Str("org"), Str("sub-org")} => nOut.val.customer_type = Str("org")

\* C13: created is the numeric created field verbatim when the record has
\* one (whatever its value), else CreatedAt converted to epoch seconds when
\* the record has one, else the clock's reading at the call.
C13_CreatedPrecedence ==
    Produced =>
      nOut.val.created =
        IF Get(nRaw, "created").k = "number" THEN Get(nRaw, "created")
        ELSE IF "CreatedAt" \in DOMAIN nRaw THEN DateSeconds(nRaw.CreatedAt)
        ELSE IF nPc = "once" /\ ticks = 0 THEN Num(now)
        ELSE nOut.val.created

====
